---- MODULE Spec2Model ----
(***************************************************************************)
(* A model of twitter-archive-parser (src/parser.py): the record merge     *)
(* engine (merge_dicts, merge_lists, equal_ignore_types), the record store *)
(* (add_known_tweet, load_tweets), the reference collector, the remote     *)
(* batch resolver (get_tweets, download_tweets) and the recursive          *)
(* rendering of quoted records (convert_tweet, convert_tweet_to_html).     *)
(*                                                                         *)
(* JSON values are tagged records: None, PyBool, PyInt, PyStr, PyDict,     *)
(* PyList.  A Python string is a sequence of tokens: a decimal digit is a  *)
(* token of its own, so that str.isnumeric and int() are computed digit by *)
(* digit; other tokens stand for the runs of characters the code looks at  *)
(* as a whole ("_count", "RT @", "https://twitter.com/", "/status/").      *)
(* A Python dict is the sequence of its <<key, value>> items in insertion  *)
(* order, which is the order `for key in b` visits them in.                *)
(***************************************************************************)
EXTENDS Integers, Sequences, FiniteSets, TLC

----------------------------------------------------------------------------
(* Python values *)

None == [t |-> "null"]
PyBool(b) == [t |-> "bool", v |-> b]
PyInt(n) == [t |-> "int", v |-> n]
PyStr(s) == [t |-> "str", v |-> s]
PyDict(items) == [t |-> "dict", v |-> items]
PyList(xs) == [t |-> "list", v |-> xs]

\* isinstance(x, dict), isinstance(x, list), isinstance(x, str)
IsDict(x) == x.t = "dict"
IsList(x) == x.t = "list"
IsStr(x) == x.t = "str"
\* isinstance(x, int): bool is a subclass of int in Python
IsIntInstance(x) == x.t \in {"int", "bool"}

\* the integer a Python int or bool compares as (True == 1, False == 0)
NumVal(x) == IF x.t = "bool" THEN (IF x.v THEN 1 ELSE 0) ELSE x.v

\* dict operations: d.keys(), `key in d`, d[key], d[key] = x
DictKeys(d) == {d.v[i][1] : i \in 1..Len(d.v)}
HasKey(d, key) == key \in DictKeys(d)
IndexOf(d, key) == CHOOSE i \in 1..Len(d.v) : d.v[i][1] = key
Get(d, key) == d.v[IndexOf(d, key)][2]
Put(d, key, x) ==
    IF HasKey(d, key)
    THEN [d EXCEPT !.v[IndexOf(d, key)] = <<key, x>>]
    ELSE [d EXCEPT !.v = Append(@, <<key, x>>)]

\* Python's == on JSON values: numbers by value (True == 1), strings and
\* None by identity of content, dicts by key set and values (insertion
\* order ignored), lists element by element.
RECURSIVE PyEq(_, _)
PyEq(x, y) ==
    IF IsIntInstance(x) /\ IsIntInstance(y) THEN NumVal(x) = NumVal(y)
    ELSE IF x.t # y.t THEN FALSE
    ELSE IF x.t = "null" THEN TRUE
    ELSE IF x.t = "str" THEN x.v = y.v
    ELSE IF x.t = "dict"
         THEN /\ DictKeys(x) = DictKeys(y)
              /\ \A key \in DictKeys(x) : PyEq(Get(x, key), Get(y, key))
    ELSE /\ Len(x.v) = Len(y.v)
         /\ \A i \in 1..Len(x.v) : PyEq(x.v[i], y.v[i])

\* exceptions: the value a call returns beside its result
NoExc == [kind |-> "none"]
Raised(e) == e.kind # "none"
TypeError == [kind |-> "TypeError"]
KeyError == [kind |-> "KeyError"]
ValueError == [kind |-> "ValueError"]
\* raise Exception(f"Conflict at {'.'.join(path + [str(key)])}, value '{a[key]}' vs. '{b[key]}'")
Conflict(path, va, vb) == [kind |-> "Conflict", path |-> path, va |-> va, vb |-> vb]

----------------------------------------------------------------------------
(* parse_as_number, has_path *)

DigitVal == ("0" :> 0) @@ ("1" :> 1) @@ ("2" :> 2) @@ ("3" :> 3) @@ ("4" :> 4) @@
            ("5" :> 5) @@ ("6" :> 6) @@ ("7" :> 7) @@ ("8" :> 8) @@ ("9" :> 9)

\* the decimal digit of n < 10
DigitTok(n) == CHOOSE d \in DOMAIN DigitVal : DigitVal[d] = n

\* str.isnumeric(): a non-empty string of digits
isnumeric(s) == Len(s) > 0 /\ \A i \in 1..Len(s) : s[i] \in DOMAIN DigitVal

\* int(s) of a string of decimal digits
RECURSIVE py_int(_)
py_int(s) ==
    IF Len(s) = 0 THEN 0
    ELSE py_int(SubSeq(s, 1, Len(s) - 1)) * 10 + DigitVal[s[Len(s)]]

parse_as_number(str_or_number) ==
    IF IsStr(str_or_number)
    THEN IF isnumeric(str_or_number.v) THEN PyInt(py_int(str_or_number.v)) ELSE None
    ELSE IF IsIntInstance(str_or_number) THEN str_or_number
    ELSE None

\* has_path over nested dicts: every key present and no value None
RECURSIVE has_path(_, _)
has_path(root_dict, index_path) ==
    IF Len(index_path) = 0 THEN TRUE
    ELSE IF ~HasKey(root_dict, Head(index_path)) THEN FALSE
    ELSE IF Get(root_dict, Head(index_path)).t = "null" THEN FALSE
    ELSE has_path(Get(root_dict, Head(index_path)), Tail(index_path))

\* key.endswith('_count')
EndsWithCount(key) == Len(key) > 0 /\ key[Len(key)] = "_count"

\* key in ['possibly_sensitive', 'protected', 'monetizable']
VolatileKeys == {<<"possibly_sensitive">>, <<"protected">>, <<"monetizable">>}

----------------------------------------------------------------------------
(* equal_ignore_types, merge_lists, merge_dicts *)

\* "True", "False", or "KeyError" when a[key] is read for a key b lacks
RECURSIVE equal_ignore_types(_, _), EqualDictFrom(_, _, _), EqualListFrom(_, _, _)
equal_ignore_types(a, b) ==
    IF PyEq(a, b) THEN "True"
    ELSE IF parse_as_number(a).t # "null" /\ parse_as_number(b).t # "null"
         THEN (IF PyEq(parse_as_number(a), parse_as_number(b)) THEN "True" ELSE "False")
    ELSE IF IsDict(a) /\ IsDict(b)
         THEN (IF Len(a.v) # Len(b.v) THEN "False" ELSE EqualDictFrom(a, b, 1))
    ELSE IF IsList(a) /\ IsList(b)
         THEN (IF Len(a.v) # Len(b.v) THEN "False" ELSE EqualListFrom(a, b, 1))
    ELSE "False"

\* for key in a.keys(): if not equal_ignore_types(a[key], b[key]): return False
EqualDictFrom(a, b, i) ==
    IF i > Len(a.v) THEN "True"
    ELSE IF ~HasKey(b, a.v[i][1]) THEN "KeyError"
    ELSE LET r == equal_ignore_types(a.v[i][2], Get(b, a.v[i][1]))
         IN  IF r # "True" THEN r ELSE EqualDictFrom(a, b, i + 1)

\* for i in range(len(a)): if not equal_ignore_types(a[i], b[i]): return False
EqualListFrom(a, b, i) ==
    IF i > Len(a.v) THEN "True"
    ELSE LET r == equal_ignore_types(a.v[i], b.v[i])
         IN  IF r # "True" THEN r ELSE EqualListFrom(a, b, i + 1)

\* a merge that keeps the stored counter instead of the larger one
PyMaxKeepsFirst(x, y) == x

\* max(x, y) of Python: the first of the largest; None is not orderable
PyMax(x, y) == IF NumVal(y) > NumVal(x) THEN y ELSE x

RECURSIVE merge_dicts(_, _, _), MergeDictsFrom(_, _, _, _)
RECURSIVE merge_lists(_, _, _), MergeListsFrom(_, _, _, _, _), ScanListA(_, _, _, _, _, _)

\* the scalar branches of merge_dicts (lines 497-514) for one key present
\* in both: [val |-> a after the branch, exc |-> what it raises]
MergeLeaf(a, key, va, vb, path) ==
    IF PyEq(va, vb) THEN [val |-> a, exc |-> NoExc]
    ELSE IF EndsWithCount(key)
         THEN IF parse_as_number(va).t = "null" \/ parse_as_number(vb).t = "null"
              THEN [val |-> a, exc |-> TypeError]
              ELSE [val |-> Put(a, key, PyMax(parse_as_number(va), parse_as_number(vb))),
                    exc |-> NoExc]
    ELSE IF key \in VolatileKeys THEN [val |-> a, exc |-> NoExc]
    ELSE IF PyEq(parse_as_number(va), parse_as_number(vb))
         THEN [val |-> Put(a, key, parse_as_number(va)), exc |-> NoExc]
    ELSE IF va.t = "null" /\ vb.t # "null" THEN [val |-> Put(a, key, vb), exc |-> NoExc]
    ELSE IF va.t # "null" /\ vb.t = "null" THEN [val |-> a, exc |-> NoExc]
    ELSE [val |-> a, exc |-> Conflict(path \o <<key>>, va, vb)]

\* for key in b, from the i-th item of b on. b is carried along: a nested
\* call can change what b holds (see merge_lists)
MergeDictsFrom(a, b, path, i) ==
    IF i > Len(b.v) THEN [val |-> a, exc |-> NoExc, b |-> b]
    ELSE LET key == b.v[i][1]
             vb == b.v[i][2]
         IN  IF ~HasKey(a, key) THEN MergeDictsFrom(Put(a, key, vb), b, path, i + 1)
             ELSE LET va == Get(a, key)
                      r == IF IsDict(va) /\ IsDict(vb)
                           THEN merge_dicts(va, vb, path \o <<key>>)
                           ELSE merge_lists(va, vb, TRUE)
                      leaf == MergeLeaf(a, key, va, vb, path)
                  IN  IF (IsDict(va) /\ IsDict(vb)) \/ (IsList(va) /\ IsList(vb))
                      THEN IF Raised(r.exc)
                           THEN [val |-> Put(a, key, r.val), exc |-> r.exc,
                                 b |-> Put(b, key, r.b)]
                           ELSE MergeDictsFrom(Put(a, key, r.val), Put(b, key, r.b), path, i + 1)
                      ELSE IF Raised(leaf.exc) THEN [val |-> leaf.val, exc |-> leaf.exc, b |-> b]
                           ELSE MergeDictsFrom(leaf.val, b, path, i + 1)

\* merges b into a: [val |-> a as the call leaves it, exc |-> the exception
\* it raises, NoExc when it returns, b |-> b as the call leaves it]
merge_dicts(a, b, path) == MergeDictsFrom(a, b, path, 1)

\* for item_a in a (ignore_types branch), from the i-th item of a on, with
\* item_b the j-th item of b: [val |-> a, b |-> b, found |-> found_in_a, exc |-> ...].
\* a.append(item_b) puts the object of b into a: alias[i] is the place in b of
\* the object that a[i] is, 0 for an object of a's own, and merging into such
\* an item of a changes the item of b as well.
ScanListA(a, b, j, i, found, alias) ==
    IF i > Len(a.v) THEN [val |-> a, b |-> b, found |-> found, exc |-> NoExc]
    ELSE LET item_a == a.v[i]
             item_b == b.v[j]
             e == equal_ignore_types(item_a, item_b)
         IN  IF e = "KeyError" THEN [val |-> a, b |-> b, found |-> found, exc |-> KeyError]
             ELSE IF e = "True" THEN [val |-> a, b |-> b, found |-> TRUE, exc |-> NoExc]
             ELSE IF /\ IsDict(item_a) /\ IsDict(item_b)
                     /\ has_path(item_a, << <<"id_str">> >>)
                     /\ has_path(item_b, << <<"id_str">> >>)
                     /\ PyEq(Get(item_a, <<"id_str">>), Get(item_b, <<"id_str">>))
                  THEN LET r == merge_dicts(item_a, item_b, << >>)
                           a2 == [a EXCEPT !.v[i] = r.val]
                           b1 == [b EXCEPT !.v[j] = r.b]
                           b2 == IF alias[i] = 0 THEN b1
                                 ELSE [b1 EXCEPT !.v[alias[i]] = r.val]
                       IN  IF Raised(r.exc)
                           THEN [val |-> a2, b |-> b2, found |-> found, exc |-> r.exc]
                           ELSE ScanListA(a2, b2, j, i + 1, TRUE, alias)
             ELSE ScanListA(a, b, j, i + 1, found, alias)

\* for item_b in b, from the j-th item of b on
MergeListsFrom(a, b, ignore_types, j, alias) ==
    IF j > Len(b.v) THEN [val |-> a, exc |-> NoExc, b |-> b]
    ELSE LET s == IF ignore_types
                  THEN ScanListA(a, b, j, 1, FALSE, alias)
                  ELSE [val |-> a, b |-> b,
                        found |-> \E i \in 1..Len(a.v) : PyEq(a.v[i], b.v[j]),
                        exc |-> NoExc]
         IN  IF Raised(s.exc) THEN [val |-> s.val, exc |-> s.exc, b |-> s.b]
             ELSE IF s.found THEN MergeListsFrom(s.val, s.b, ignore_types, j + 1, alias)
             ELSE MergeListsFrom([s.val EXCEPT !.v = Append(@, s.b.v[j])], s.b, ignore_types,
                                 j + 1, Append(alias, j))

\* the items of a are objects of a's own when merge_lists is called
merge_lists(a, b, ignore_types) ==
    MergeListsFrom(a, b, ignore_types, 1, [i \in 1..Len(a.v) |-> 0])

----------------------------------------------------------------------------
(* the record store: unwrap_tweet, add_known_tweet; lookup_users *)

unwrap_tweet(tweet) ==
    IF tweet.t = "null" THEN None
    ELSE IF HasKey(tweet, <<"tweet">>) THEN Get(tweet, <<"tweet">>)
    ELSE tweet

\* known_tweets after add_known_tweet(known_tweets, tweet_id, new_tweet).
\* merge_dicts changes the stored record in place, so what it did before it
\* raised stays in the store when the exception is caught (lines 538-542).
add_known_tweet(known, tweet_id, new_tweet) ==
    IF new_tweet.t # "null"
    THEN IF HasKey(known, tweet_id)
         THEN IF PyEq(Get(known, tweet_id), new_tweet) THEN known
              ELSE Put(known, tweet_id, merge_dicts(Get(known, tweet_id), new_tweet, << >>).val)
         ELSE Put(known, tweet_id, new_tweet)
    ELSE IF HasKey(known, tweet_id)
         THEN Put(known, tweet_id,
                  Put(Get(known, tweet_id), <<"api_returned_null">>, PyBool(TRUE)))
         ELSE Put(known, tweet_id,
                  PyDict(<< << <<"id">>, PyStr(tweet_id) >>, << <<"id_str">>, PyStr(tweet_id) >>,
                            << <<"api_returned_null">>, PyBool(TRUE) >> >>))

\* UserData.__init__: [val |-> the object, exc |-> ValueError for a None argument]
UserData(user_id, handle) ==
    IF user_id.t = "null" \/ handle.t = "null"
    THEN [val |-> None, exc |-> ValueError]
    ELSE [val |-> [user_id |-> user_id, handle |-> handle], exc |-> NoExc]

\* lookup_users, lines 354-365: the first loop over retrieved_users.items(),
\* from the i-th item on; a merge conflict is caught per user
RECURSIVE StoreRetrievedUsers(_, _, _)
StoreRetrievedUsers(extended, retrieved_users, i) ==
    IF i > Len(retrieved_users.v) THEN extended
    ELSE LET user_id == retrieved_users.v[i][1]
             user_info == retrieved_users.v[i][2]
             next == IF ~HasKey(extended, user_id) THEN Put(extended, user_id, user_info)
                     ELSE IF PyEq(Get(extended, user_id), user_info) THEN extended
                     ELSE Put(extended, user_id,
                              merge_dicts(Get(extended, user_id), user_info, << >>).val)
         IN  StoreRetrievedUsers(next, retrieved_users, i + 1)

\* lookup_users, lines 366-368: the second loop; user["screen_name"] of a
\* record without that key raises KeyError, which ends the loop (line 370)
RECURSIVE StoreUserHandles(_, _, _)
StoreUserHandles(usrs, retrieved_users, i) ==
    IF i > Len(retrieved_users.v) THEN usrs
    ELSE LET user_id == retrieved_users.v[i][1]
             user == retrieved_users.v[i][2]
         IN  IF ~HasKey(user, <<"screen_name">>) THEN usrs
             ELSE IF Get(user, <<"screen_name">>).t = "null"
                  THEN StoreUserHandles(usrs, retrieved_users, i + 1)
             ELSE StoreUserHandles(
                      Put(usrs, user_id,
                          UserData(PyStr(user_id), Get(user, <<"screen_name">>)).val),
                      retrieved_users, i + 1)

----------------------------------------------------------------------------
(* the reference collector: collect_tweet_references *)

AttributeError == [kind |-> "AttributeError"]
\* raise Exception(f"Tweet has reference to other tweet with id None: {tweet}")
NoneReference == [kind |-> "NoneReference"]

\* str(n) of a non-negative integer
RECURSIVE py_str(_)
py_str(n) ==
    IF n < 10 THEN <<DigitTok(n)>>
    ELSE Append(py_str(n \div 10), DigitTok(n % 10))

\* re.match(r'^https://twitter.com/([0-9A-Za-z_]*)/status/(\d+)$', expanded_url):
\* the url is the tokens "https://twitter.com/", a handle, "/status/" and digits
StatusUrlMatches(expanded_url) ==
    /\ Len(expanded_url) >= 4
    /\ expanded_url[1] = "https://twitter.com/"
    /\ expanded_url[2] \notin {"https://twitter.com/", "/status/"}
    /\ expanded_url[3] = "/status/"
    /\ isnumeric(SubSeq(expanded_url, 4, Len(expanded_url)))

\* matches[2]
StatusUrlId(expanded_url) == SubSeq(expanded_url, 4, Len(expanded_url))

\* full_text.startswith('RT @')
StartsWithRT(full_text) == Len(full_text) >= 1 /\ full_text[1] = "RT @"

\* lines 562-571: the quoted ids of the url entities that the store lacks
QuotedReferences(tweet, known) ==
    IF ~has_path(tweet, << <<"entities">>, <<"urls">> >>) THEN {}
    ELSE LET urls == Get(Get(tweet, <<"entities">>), <<"urls">>).v
         IN  { StatusUrlId(Get(urls[i], <<"expanded_url">>).v) :
                 i \in { j \in 1..Len(urls) :
                           /\ HasKey(urls[j], <<"url">>)
                           /\ HasKey(urls[j], <<"expanded_url">>)
                           /\ StatusUrlMatches(Get(urls[j], <<"expanded_url">>).v)
                           /\ ~HasKey(known, StatusUrlId(Get(urls[j], <<"expanded_url">>).v)) } }

\* lines 574-577: the reply parent, as the value found (None is kept out by has_path)
ReplyReferences(tweet, known) ==
    IF ~has_path(tweet, << <<"in_reply_to_status_id_str">> >>) THEN {}
    ELSE LET prev_tweet_id == Get(tweet, <<"in_reply_to_status_id_str">>).v
         IN  IF HasKey(known, prev_tweet_id) THEN {} ELSE {prev_tweet_id}

\* lines 582-589 and 595-602: the record's own id; id_str None falls back to
\* str(id), and adds nothing when id is None or absent as well
OwnId(tweet) ==
    IF Get(tweet, <<"id_str">>).t = "null"
    THEN IF HasKey(tweet, <<"id">>) /\ Get(tweet, <<"id">>).t # "null"
         THEN LET id == Get(tweet, <<"id">>)
              IN  {IF id.t = "int" THEN py_str(id.v) ELSE id.v}
         ELSE {}
    ELSE {Get(tweet, <<"id_str">>).v}

\* line 581
WantsRetweetBody(tweet) ==
    /\ ~HasKey(tweet, <<"from_api">>)
    /\ HasKey(tweet, <<"full_text">>)
    /\ StartsWithRT(Get(tweet, <<"full_text">>).v)

\* line 594
WantsAltText(tweet) ==
    /\ ~HasKey(tweet, <<"download_with_alt_text">>)
    /\ has_path(tweet, << <<"entities">>, <<"media">> >>)

\* [val |-> the set of ids to fetch, exc |-> the exception raised]
collect_tweet_references(wrapped, known) ==
    LET tweet == unwrap_tweet(wrapped)
    IN  IF ~HasKey(tweet, <<"from_archive">>) THEN [val |-> {}, exc |-> NoExc]
        ELSE IF /\ ~HasKey(tweet, <<"from_api">>) /\ HasKey(tweet, <<"full_text">>)
                /\ Get(tweet, <<"full_text">>).t = "null"
             THEN [val |-> {}, exc |-> AttributeError]
        ELSE IF (WantsRetweetBody(tweet) \/ WantsAltText(tweet)) /\ ~HasKey(tweet, <<"id_str">>)
             THEN [val |-> {}, exc |-> KeyError]
        ELSE [val |-> QuotedReferences(tweet, known) \cup ReplyReferences(tweet, known)
                        \cup (IF WantsRetweetBody(tweet) THEN OwnId(tweet) ELSE {})
                        \cup (IF WantsAltText(tweet) THEN OwnId(tweet) ELSE {}),
              exc |-> NoExc]

\* collect_tweet_ids_from_tweets: for tweet in known_tweets.values(), from the i-th on
RECURSIVE CollectFrom(_, _, _)
CollectFrom(known, i, acc) ==
    IF i > Len(known.v) THEN [val |-> acc, exc |-> NoExc]
    ELSE LET r == collect_tweet_references(known.v[i][2], known)
         IN  IF Raised(r.exc) THEN [val |-> acc, exc |-> r.exc]
             ELSE CollectFrom(known, i + 1, acc \cup r.val)

collect_tweet_ids_from_tweets(known) == CollectFrom(known, 1, {})

----------------------------------------------------------------------------
(* load_tweets *)

\* lines 1383-1388: for tweet in json_result, from the i-th archive record on
RECURSIVE LoadFrom(_, _, _)
LoadFrom(known, archive_tweets, i) ==
    IF i > Len(archive_tweets) THEN known
    ELSE LET tweet == Put(unwrap_tweet(archive_tweets[i]), <<"from_archive">>, PyBool(TRUE))
         IN  LoadFrom(add_known_tweet(known, Get(tweet, <<"id_str">>).v, tweet),
                      archive_tweets, i + 1)

\* the store after load_tweets: the store of the earlier run (known_tweets.json)
\* with every archive record added
load_tweets(cached, archive_tweets) == LoadFrom(cached, archive_tweets, 1)

----------------------------------------------------------------------------
(* download_tweets and get_tweets *)

\* the batch size of get_tweets (max_batch, 100 in the code), scaled down
max_batch == 2

max_retries == 5

Min(m, n) == IF m <= n THEN m ELSE n

\* a slice that starts one id early: the last id of a batch is asked for again
RestFromLast(ids) == SubSeq(ids, max_batch, Len(ids))

\* remaining_tweet_ids[:max_batch] and remaining_tweet_ids[max_batch:]
Batch(ids) == SubSeq(ids, 1, Min(max_batch, Len(ids)))
Rest(ids) == SubSeq(ids, max_batch + 1, Len(ids))

ApiReturnedNull(known, tweet_id) ==
    /\ HasKey(known, tweet_id)
    /\ Get(known, tweet_id).t # "null"
    /\ HasKey(Get(known, tweet_id), <<"api_returned_null">>)
    /\ Get(Get(known, tweet_id), <<"api_returned_null">>) = PyBool(TRUE)

\* a download list that keeps the ids known to be unavailable
KeepAll(known, ids) == ids

\* lines 1407-1435: the ids unknown to the store, then those that can be
\* extended; the ids the API returned null for are dropped
FilterIds(known, ids) ==
    IF Len(ids) = 0 THEN ids
    ELSE LET CompletelyNew(id) == ~HasKey(known, id) \/ Get(known, id).t = "null"
             CanBeExtended(id) == ~CompletelyNew(id) /\ ~ApiReturnedNull(known, id)
         IN  SelectSeq(ids, CompletelyNew) \o SelectSeq(ids, CanBeExtended)

\* lines 319-321: for tweet_id in response_json: tweets[tweet_id] = tweet
RECURSIVE StoreResponse(_, _, _)
StoreResponse(fetched, response_json, i) ==
    IF i > Len(response_json.v) THEN fetched
    ELSE StoreResponse(Put(fetched, response_json.v[i][1], response_json.v[i][2]),
                       response_json, i + 1)

\* lines 1468-1477: for downloaded_tweet_id in downloaded_tweets, from the i-th on
RECURSIVE AddDownloaded(_, _, _)
AddDownloaded(known, downloaded_tweets, i) ==
    IF i > Len(downloaded_tweets.v) THEN known
    ELSE LET downloaded_tweet_id == downloaded_tweets.v[i][1]
             got == downloaded_tweets.v[i][2]
             downloaded_tweet ==
                 IF got.t = "null" THEN None
                 ELSE Put(Put(Put(unwrap_tweet(got), <<"from_api">>, PyBool(TRUE)),
                              <<"download_with_user">>, PyBool(FALSE)),
                          <<"download_with_alt_text">>, PyBool(TRUE))
         IN  AddDownloaded(add_known_tweet(known, downloaded_tweet_id, downloaded_tweet),
                           downloaded_tweets, i + 1)

----------------------------------------------------------------------------
(* rendering: convert_tweet, add_user_metadata_to_egg, convert_tweet_to_html *)

QuoteRecursionDepthError == [kind |-> "QuoteRecursionDepthError"]
EmptyTweetFullTextError == [kind |-> "EmptyTweetFullTextError"]

\* line 653: if depth >= 5
depth_limit == 5

\* a depth check that lets one level more through
PastDepthLimit(depth) == depth > depth_limit

AtDepthLimit(depth) == depth >= depth_limit

\* the one date of the inputs, in the format of line 671
IsDate(s) == s = <<"Tue Mar 19 14:05:17 +0000 2019">>

\* line 673: datetime.datetime.strptime(tweet['created_at'], original_date_format)
CreatedAtError(tweet) ==
    IF ~HasKey(tweet, <<"created_at">>) THEN KeyError
    ELSE IF ~IsStr(Get(tweet, <<"created_at">>)) THEN TypeError
    ELSE IF ~IsDate(Get(tweet, <<"created_at">>).v) THEN ValueError
    ELSE NoExc

\* lines 751-775: the loop over tweet['entities']['urls'] from the i-th url on;
\* val is egg['inner_tweet'], None while no url has named a known record
RECURSIVE UrlsFrom(_, _, _, _)
UrlsFrom(urls, known, i, inner_tweet) ==
    IF i > Len(urls) THEN [val |-> inner_tweet, exc |-> NoExc]
    ELSE LET url == urls[i]
         IN  IF ~(HasKey(url, <<"url">>) /\ HasKey(url, <<"expanded_url">>))
             THEN UrlsFrom(urls, known, i + 1, inner_tweet)
             ELSE IF ~HasKey(url, <<"display_url">>)
                  THEN [val |-> inner_tweet, exc |-> KeyError]
             ELSE IF ~IsStr(Get(url, <<"expanded_url">>))
                  THEN [val |-> inner_tweet, exc |-> TypeError]
             ELSE LET expanded_url == Get(url, <<"expanded_url">>).v
                  IN  IF StatusUrlMatches(expanded_url) /\ HasKey(known, StatusUrlId(expanded_url))
                      THEN UrlsFrom(urls, known, i + 1, Get(known, StatusUrlId(expanded_url)))
                      ELSE UrlsFrom(urls, known, i + 1, inner_tweet)

\* lines 702-706: egg['user_id']
EggUserId(tweet, own_user_data) ==
    IF has_path(tweet, << <<"user">>, <<"id_str">> >>)
    THEN Get(Get(tweet, <<"user">>), <<"id_str">>)
    ELSE own_user_data.user_id

\* add_user_metadata_to_egg: val is egg['user_screen_name']
add_user_metadata_to_egg(user_id, usrs, extended) ==
    IF HasKey(extended, user_id.v)
    THEN LET user == Get(extended, user_id.v)
         IN  IF user.t = "null" THEN [val |-> None, exc |-> TypeError]
             ELSE IF \E k \in {<<"screen_name">>, <<"description">>, <<"name">>, <<"id_str">>} :
                        ~HasKey(user, k)
                  THEN [val |-> None, exc |-> KeyError]
             ELSE [val |-> Get(user, <<"screen_name">>), exc |-> NoExc]
    ELSE IF HasKey(usrs, user_id.v)
         THEN [val |-> Get(usrs, user_id.v).handle, exc |-> NoExc]
    ELSE [val |-> PyStr(<<"unknown_user">>), exc |-> NoExc]

\* lines 943-951: the UserData of the quoted record's author
InnerUserData(inner_tweet, own_user_data, extended) ==
    IF has_path(inner_tweet, << <<"user">>, <<"id_str">> >>)
    THEN LET inner_user_id == Get(Get(inner_tweet, <<"user">>), <<"id_str">>)
         IN  IF has_path(extended, << inner_user_id.v >>)
             THEN LET inner_user == Get(extended, inner_user_id.v)
                  IN  IF ~HasKey(inner_user, <<"screen_name">>)
                      THEN [val |-> None, exc |-> KeyError]
                      ELSE UserData(inner_user_id, Get(inner_user, <<"screen_name">>))
             ELSE UserData(inner_user_id, PyStr(<<"unknown user">>))
    ELSE [val |-> own_user_data, exc |-> NoExc]

\* the HTML of a record: its id, its author's handle, and in its quote-tweet
\* div nothing, the notice of line 965 or the HTML of the quoted record
NoHtml == [id |-> None]
NoQuote == [kind |-> "none"]
Notice(error) == [kind |-> "notice", error |-> error.kind]
Quote(html) == [kind |-> "html", html |-> html]

\* convert_tweet and convert_tweet_to_html: [exc |-> the exception raised,
\* html |-> the HTML returned]. The records of the inputs hold no
\* retweeted_status, no in_reply_to_status_id and no url in their body, and
\* media_sources holds no media of theirs.
RECURSIVE convert_tweet(_, _, _, _, _, _)
RECURSIVE convert_tweet_to_html(_, _, _, _, _, _)
convert_tweet_to_html(egg, known, own_user_data, usrs, extended, depth) ==
    IF egg.inner_tweet.t = "null"
    THEN [exc |-> NoExc, html |-> [id |-> egg.id, handle |-> egg.user_screen_name, quote |-> NoQuote]]
    ELSE LET inner_user_data == InnerUserData(egg.inner_tweet, own_user_data, extended)
         IN  IF Raised(inner_user_data.exc)
             THEN [exc |-> inner_user_data.exc, html |-> NoHtml]
             ELSE LET inner == convert_tweet(egg.inner_tweet, known, inner_user_data.val,
                                             usrs, extended, depth + 1)
                  IN  [exc |-> NoExc,
                       html |-> [id |-> egg.id, handle |-> egg.user_screen_name,
                                 quote |-> IF Raised(inner.exc) THEN Notice(inner.exc)
                                           ELSE Quote(inner.html)]]

convert_tweet(wrapped, known, own_user_data, usrs, extended, depth) ==
    LET tweet == unwrap_tweet(wrapped)
        Fails(e) == [exc |-> e, html |-> NoHtml]
    IN  IF AtDepthLimit(depth) THEN Fails(QuoteRecursionDepthError)
        ELSE IF ~HasKey(tweet, <<"full_text">>) \/ Get(tweet, <<"full_text">>).t = "null"
             THEN Fails(EmptyTweetFullTextError)
        ELSE IF Raised(CreatedAtError(tweet)) THEN Fails(CreatedAtError(tweet))
        ELSE IF ~HasKey(tweet, <<"id_str">>) THEN Fails(KeyError)
        ELSE LET quoted == IF has_path(tweet, << <<"entities">>, <<"urls">> >>)
                           THEN UrlsFrom(Get(Get(tweet, <<"entities">>), <<"urls">>).v,
                                         known, 1, None)
                           ELSE [val |-> None, exc |-> NoExc]
                 user == add_user_metadata_to_egg(EggUserId(tweet, own_user_data), usrs, extended)
             IN  IF Raised(quoted.exc) THEN Fails(quoted.exc)
                 ELSE IF Raised(user.exc) THEN Fails(user.exc)
                 ELSE convert_tweet_to_html(
                          [id |-> Get(tweet, <<"id_str">>), user_screen_name |-> user.val,
                           inner_tweet |-> quoted.val],
                          known, own_user_data, usrs, extended, depth)

\* convert_tweets, lines 1508-1534: the records from the i-th on. A record of
\* the archive is converted at depth 0; of the other records the media ids are
\* taken (collect_media_ids_from_tweet reads tweet['id_str'] first, line 1035,
\* and the inputs hold no media). Every exception is caught, and each handler
\* prints tweet['id_str']: for a record without that key the handler raises
\* KeyError itself, which leaves convert_tweets.
RECURSIVE ConvertFrom(_, _, _, _, _, _)
ConvertFrom(known, own_user_data, usrs, extended, i, converted) ==
    IF i > Len(known.v) THEN [val |-> converted, exc |-> NoExc]
    ELSE LET tweet == known.v[i][2]
             of_archive == /\ HasKey(tweet, <<"from_archive">>)
                           /\ Get(tweet, <<"from_archive">>) = PyBool(TRUE)
             r == convert_tweet(tweet, known, own_user_data, usrs, extended, 0)
             failed == IF of_archive THEN Raised(r.exc) ELSE ~HasKey(tweet, <<"id_str">>)
         IN  IF failed /\ ~HasKey(tweet, <<"id_str">>)
             THEN [val |-> converted, exc |-> KeyError]
             ELSE ConvertFrom(known, own_user_data, usrs, extended, i + 1,
                      IF of_archive /\ ~failed THEN Append(converted, r.html) ELSE converted)

----------------------------------------------------------------------------
(* state *)

VARIABLES
    pc,                     \* the position of the run
    arg_a, arg_b,           \* the two partial records handed to the merge engine
    merged,                 \* what merge_dicts(arg_a, arg_b) left: [val, exc]
    known_tweets,           \* the record store: id -> record
    extended_user_data,     \* id -> account record
    users,                  \* id -> UserData
    raised,                 \* the exception that reached the caller, NoExc if none
    archive_tweets,         \* the records of the archive's tweet files
    saved_tweets,           \* the contents of known_tweets.json
    tweet_ids_to_download,  \* download_tweets: the ids still to fetch
    retried_times,          \* download_tweets: the attempts made
    consent,                \* the answer to the last get_consent: "none", "yes", "no"
    tweets,                 \* get_tweets: the records fetched, id -> record or None
    remaining_tweet_ids,    \* get_tweets: the ids not yet answered
    guest_token,            \* get_tweets: the guest token in use
    api,                    \* the service: tokens issued, requests rate limited
    request,                \* the last request sent: its number, ids and token
    status,                 \* the outcome of the last request
    calls,                  \* the calls of get_tweets: how many, and the ids given and returned
    scenario,               \* rendering: the shape of the store that is rendered
    depth_arg,              \* rendering: the depth convert_tweet was called with
    rendered,               \* rendering: what convert_tweet left: [exc, html]
    converted_tweets,       \* rendering: the HTML convert_tweets has collected
    tweet,                  \* the record handed to collect_tweet_references
    tweet_ids,              \* what collect_tweet_references left: [val, exc]
    media_sources,          \* the urls to download: [profile, tweets], in file order
    media_download_state,   \* url -> the entry of the download state map
    state_file,             \* the contents of media_download_state.json
    remaining_media_sources,\* download_larger_media: the urls of the next pass
    remaining_tries,        \* download_larger_media: the passes left
    stage,                  \* which call of download_larger_media runs
    downloads,              \* the downloads attempted: <<url, its entry at that time>>
    unknown_user_ids,       \* lookup_users: the ids given to get_twitter_users
    user_ids,               \* get_twitter_users: the ids not yet asked for
    twitter_users,          \* get_twitter_users: the accounts fetched, id -> record
    user_requests,          \* get_twitter_users: the requests sent, [ids, status]
    dms_json,               \* direct-messages.js: the conversations
    conversations_messages, \* parse_direct_messages: key -> messages
    files,                  \* parse_direct_messages: the files written
    media_item,             \* an item of extended_entities.media
    collected_media         \* what collect_media_ids_from_tweet left for it

merge_vars == <<arg_a, arg_b, merged, extended_user_data, users>>

session_vars == <<tweets, remaining_tweet_ids, guest_token, api, request, status>>

download_vars ==
    <<archive_tweets, saved_tweets, tweet_ids_to_download, retried_times, consent, calls>>

render_vars == <<scenario, depth_arg, rendered, converted_tweets>>

collect_vars == <<tweet, tweet_ids>>

media_vars ==
    <<media_sources, media_download_state, state_file, remaining_media_sources,
      remaining_tries, stage, downloads>>

users_vars == <<unknown_user_ids, user_ids, twitter_users, user_requests>>

dm_vars == <<dms_json, conversations_messages, files>>

variant_vars == <<media_item, collected_media>>

later_vars == <<users_vars, dm_vars, variant_vars>>

vars ==
    <<pc, known_tweets, raised, merge_vars, download_vars, session_vars, render_vars,
      collect_vars, media_vars, later_vars>>

EmptyDict == PyDict(<< >>)

----------------------------------------------------------------------------
(* the inputs of the merge engine *)

\* integers 0..MaxNum and their decimal strings are the numbers of the inputs
MaxNum == 7


Scalars ==
    {None, PyBool(TRUE), PyBool(FALSE)}
        \cup {PyInt(n) : n \in 0..MaxNum}
        \cup {PyStr(<<DigitTok(n)>>) : n \in 0..MaxNum}
        \cup {PyStr(<<"0", "3">>), PyStr(<<"en">>), PyStr(<<"de">>)}

\* a field value: a scalar, a mapping or a list
FieldValues ==
    Scalars \cup {PyDict(<< << <<"x">>, PyInt(1) >> >>), PyList(<<PyInt(1)>>)}

\* a plain field, a counter field and a volatile field
FieldKeys == {<<"lang">>, <<"retweet", "_count">>, <<"protected">>}

Shapes == {"flat", "nested", "list"}

\* the record that holds field key = x at top level, inside the mapping
\* "user", or inside the element with id_str "9" of the list "media"
Shaped(shape, key, x) ==
    IF shape = "flat" THEN PyDict(<< <<key, x>> >>)
    ELSE IF shape = "nested"
         THEN PyDict(<< << <<"user">>, PyDict(<< <<key, x>> >>) >> >>)
    ELSE PyDict(<< << <<"media">>,
                      PyList(<< PyDict(<< << <<"id_str">>, PyStr(<<"9">>) >>, <<key, x>> >>) >>) >> >>)

\* b with one more field that a lacks, visited before the others
WithLead(lead, d) ==
    IF lead THEN PyDict(<< << <<"source">>, PyStr(<<"web">>) >> >> \o d.v) ELSE d

\* the longest list of mentions of an input record
MaxList == 2

\* an element of entities.user_mentions: account "5" mentioned at the place
\* indices; an account mentioned twice gives two elements with one id_str
Mention(at) ==
    PyDict(<< << <<"id_str">>, PyStr(<<"5">>) >>,
              << <<"indices">>, PyList(<< PyInt(at), PyInt(at + 1) >>) >> >>)

\* list elements: the two mentions, partial views of account "5" (with a
\* name, with a handle), and the number 1 as an integer and as a string
Elements ==
    { Mention(0), Mention(2),
      PyDict(<< << <<"id_str">>, PyStr(<<"5">>) >>, << <<"name">>, PyStr(<<"en">>) >> >>),
      PyDict(<< << <<"id_str">>, PyStr(<<"5">>) >>, << <<"screen_name">>, PyStr(<<"de">>) >> >>),
      PyInt(1), PyStr(<<"1">>) }

ListsOf(S) == UNION { [1..n -> S] : n \in 0..MaxList }

\* the record whose list "user_mentions" holds the elements l
WithMentions(l) == PyDict(<< << <<"user_mentions">>, PyList(l) >> >>)

TheId == <<"1">>

NoRequest == [n |-> 0, ids |-> << >>, token |-> 0]

NoCalls == [n |-> 0, given |-> << >>, returned |-> << >>]

\* no download is under way
IdleSession ==
    /\ tweets = EmptyDict
    /\ remaining_tweet_ids = << >>
    /\ guest_token = 0
    /\ api = [tokens_issued |-> 0, limited |-> 0]
    /\ request = NoRequest
    /\ status = "none"

IdleDownload ==
    /\ archive_tweets = << >>
    /\ saved_tweets = EmptyDict
    /\ tweet_ids_to_download = << >>
    /\ retried_times = 0
    /\ consent = "none"
    /\ calls = NoCalls
    /\ IdleSession

\* the merge engine is not exercised
IdleMergeArgs ==
    /\ arg_a = EmptyDict
    /\ arg_b = EmptyDict
    /\ merged = [val |-> None, exc |-> NoExc]

IdleMerge ==
    /\ IdleMergeArgs
    /\ extended_user_data = EmptyDict
    /\ users = EmptyDict

NoScenario == [len |-> 0, tail |-> "end", defect_at |-> 0, defect |-> "none"]

\* nothing is rendered
IdleRender ==
    /\ scenario = NoScenario
    /\ depth_arg = 0
    /\ rendered = [exc |-> NoExc, html |-> NoHtml]
    /\ converted_tweets = << >>

\* no record is handed to the collector
IdleCollect ==
    /\ tweet = EmptyDict
    /\ tweet_ids = [val |-> {}, exc |-> NoExc]

MediaUrls == {"p1", "m1", "m2"}

\* no entry under the url
NoEntry == [success |-> FALSE, error |-> "absent"]

\* no media is downloaded
IdleMedia ==
    /\ media_sources = [profile |-> << >>, tweets |-> << >>]
    /\ media_download_state = [url \in MediaUrls |-> NoEntry]
    /\ state_file = [url \in MediaUrls |-> NoEntry]
    /\ remaining_media_sources = << >>
    /\ remaining_tries = 0
    /\ stage = "none"
    /\ downloads = << >>

\* no account is looked up
IdleUsers ==
    /\ unknown_user_ids = << >>
    /\ user_ids = << >>
    /\ twitter_users = EmptyDict
    /\ user_requests = << >>

\* no direct message is parsed
IdleDMs ==
    /\ dms_json = << >>
    /\ conversations_messages = << >>
    /\ files = << >>

\* no media item is inspected
IdleVariants ==
    /\ media_item = EmptyDict
    /\ collected_media = [tweet_media |-> << >>, media_sources |-> << >>]

IdleLater == IdleUsers /\ IdleDMs /\ IdleVariants

InitMerge ==
    /\ pc = "start"
    /\ \/ \E shape \in Shapes, key \in FieldKeys, x \in FieldValues, y \in FieldValues,
             lead \in BOOLEAN :
             /\ arg_a = Shaped(shape, key, x)
             /\ arg_b = WithLead(lead, Shaped(shape, key, y))
       \/ \E la \in ListsOf(Elements), lb \in ListsOf(Elements) :
             /\ arg_a = WithMentions(la)
             /\ arg_b = WithMentions(lb)
    /\ merged = [val |-> None, exc |-> NoExc]
    /\ known_tweets = PyDict(<< <<TheId, arg_a>> >>)
    /\ extended_user_data = PyDict(<< <<TheId, arg_a>> >>)
    /\ users = EmptyDict
    /\ raised = NoExc
    /\ IdleDownload
    /\ IdleRender
    /\ IdleCollect
    /\ IdleMedia
    /\ IdleLater

\* merge_dicts(arg_a, arg_b)
MergeDicts ==
    /\ pc = "start"
    /\ merged' = merge_dicts(arg_a, arg_b, << >>)
    /\ raised' = merged'.exc
    /\ pc' = "merged"
    /\ UNCHANGED <<arg_a, arg_b, known_tweets, extended_user_data, users>>
    /\ UNCHANGED <<download_vars, session_vars, render_vars>>
    /\ UNCHANGED <<collect_vars, media_vars>>
    /\ UNCHANGED later_vars

\* add_known_tweet(known_tweets, TheId, arg_b): a second view of the record
\* that the store holds as arg_a
AddKnownTweet ==
    /\ pc = "start"
    /\ known_tweets' = add_known_tweet(known_tweets, TheId, arg_b)
    /\ raised' = NoExc
    /\ pc' = "added"
    /\ UNCHANGED <<arg_a, arg_b, merged, extended_user_data, users>>
    /\ UNCHANGED <<download_vars, session_vars, render_vars>>
    /\ UNCHANGED <<collect_vars, media_vars>>
    /\ UNCHANGED later_vars

\* lookup_users([TheId], users, extended_user_data) where extended_user_data
\* holds arg_a and users lacks TheId, consent given: the guest token or
\* get_twitter_users fails (line 370), or the account is retrieved as arg_b
LookupUsers ==
    /\ pc = "start"
    /\ \E retrieved_users \in {None, PyDict(<< <<TheId, arg_b>> >>)} :
          IF retrieved_users.t = "null"
          THEN UNCHANGED <<extended_user_data, users>>
          ELSE /\ extended_user_data' =
                      StoreRetrievedUsers(extended_user_data, retrieved_users, 1)
               /\ users' = StoreUserHandles(users, retrieved_users, 1)
    /\ raised' = NoExc
    /\ pc' = "looked_up"
    /\ UNCHANGED <<arg_a, arg_b, merged, known_tweets>>
    /\ UNCHANGED <<download_vars, session_vars, render_vars>>
    /\ UNCHANGED <<collect_vars, media_vars>>
    /\ UNCHANGED later_vars

NextMerge == MergeDicts \/ AddKnownTweet \/ LookupUsers

SpecMerge == InitMerge /\ [][NextMerge]_vars

----------------------------------------------------------------------------
(* a run of the download: load_tweets, collect_tweet_ids_from_tweets,
   download_tweets *)

\* the 429 answers the service gives in one run
MaxRateLimited == 2

Ids == {<<"1">>, <<"2">>, <<"3">>}

StatusUrl(id) == PyStr(<<"https://twitter.com/", "bob", "/status/">> \o id)

\* a record of the archive, in its "tweet" wrapper: a plain tweet, a retweet
\* ("rt") or a tweet with media, that may quote tweet 2 and reply to tweet 3
ArchiveTweet(id, kind, quotes, replies) ==
    LET urls == IF quotes
                THEN << PyDict(<< << <<"url">>, PyStr(<<"https://t.co/x">>) >>,
                                  << <<"expanded_url">>, StatusUrl(<<"2">>) >> >>) >>
                ELSE << >>
        media == IF kind = "media"
                 THEN << << <<"media">>, PyList(<< PyDict(<< << <<"id_str">>, PyStr(<<"7">>) >> >>) >>) >> >>
                 ELSE << >>
        reply == IF replies
                 THEN << << <<"in_reply_to_status_id_str">>, PyStr(<<"3">>) >> >>
                 ELSE << >>
        body == PyStr(IF kind = "rt" THEN <<"RT @", "bob: hi">> ELSE <<"hello">>)
    IN  PyDict(<< << <<"tweet">>,
                     PyDict(<< << <<"id_str">>, PyStr(id) >>,
                               << <<"full_text">>, body >>,
                               << <<"entities">>,
                                  PyDict(<< << <<"urls">>, PyList(urls) >> >> \o media) >> >>
                            \o reply) >> >>)

\* a record as statuses/lookup returns it with trim_user=1
ApiTweet(id) ==
    PyDict(<< << <<"id_str">>, PyStr(id) >>,
              << <<"full_text">>, PyStr(<<"hello">>) >>,
              << <<"retweet", "_count">>, PyInt(3) >>,
              << <<"user">>, PyDict(<< << <<"id_str">>, PyStr(<<"5">>) >> >>) >> >>)

\* the answers to a batch with map=true: every id asked for, with its record or null
Responses(batch) ==
    { PyDict([i \in 1..Len(batch) |-> <<batch[i], f[i]>>]) :
        f \in { g \in [1..Len(batch) -> {None} \cup {ApiTweet(batch[i]) : i \in 1..Len(batch)}] :
                  \A i \in 1..Len(batch) : g[i] = None \/ g[i] = ApiTweet(batch[i]) } }

\* the orders in which a set of ids can be iterated
Orderings(S) ==
    { o \in [1..Cardinality(S) -> S] : \A i, j \in 1..Cardinality(S) : o[i] = o[j] => i = j }

\* the store an earlier run saved: the archive loaded, and for each id that run
\* collected either no answer, a null or a record
RECURSIVE EarlierRun(_, _, _)
EarlierRun(known, ids, got) ==
    IF Len(ids) = 0 THEN known
    ELSE EarlierRun(IF got[Head(ids)] = "none" THEN known
                    ELSE AddDownloaded(known,
                            PyDict(<< <<Head(ids), IF got[Head(ids)] = "null" THEN None
                                                  ELSE ApiTweet(Head(ids))>> >>), 1),
                    Tail(ids), got)

InitDownload ==
    /\ pc = "start"
    /\ \E kind \in {"plain", "rt", "media"}, quotes \in BOOLEAN, replies \in BOOLEAN :
          /\ archive_tweets = << ArchiveTweet(<<"1">>, kind, quotes, replies) >>
          /\ LET first == load_tweets(EmptyDict, archive_tweets)
                 wanted == collect_tweet_ids_from_tweets(first).val
             IN  \E got \in [wanted -> {"none", "null", "tweet"}] :
                    saved_tweets = IF \A id \in wanted : got[id] = "none" THEN EmptyDict
                                   ELSE EarlierRun(first, (CHOOSE o \in Orderings(wanted) : TRUE), got)
    /\ known_tweets = EmptyDict
    /\ raised = NoExc
    /\ tweet_ids_to_download = << >>
    /\ retried_times = 0
    /\ consent = "none"
    /\ calls = NoCalls
    /\ IdleSession
    /\ IdleMerge
    /\ IdleRender
    /\ IdleCollect
    /\ IdleMedia
    /\ IdleLater

\* main, line 2543: known_tweets = load_tweets(paths)
LoadTweets ==
    /\ pc = "start"
    /\ known_tweets' = load_tweets(saved_tweets, archive_tweets)
    /\ pc' = "loaded"
    /\ UNCHANGED <<raised, merge_vars, render_vars, download_vars, session_vars>>
    /\ UNCHANGED <<collect_vars, media_vars>>
    /\ UNCHANGED later_vars

\* main, line 2546: collect_tweet_ids_from_tweets(known_tweets); the set is
\* iterated in an order of its own
CollectTweetIds ==
    /\ pc = "loaded"
    /\ LET r == collect_tweet_ids_from_tweets(known_tweets)
       IN  IF Raised(r.exc)
           THEN /\ raised' = r.exc
                /\ pc' = "crashed"
                /\ UNCHANGED tweet_ids_to_download
           ELSE /\ \E o \in Orderings(r.val) : tweet_ids_to_download' = o
                /\ pc' = "collected"
                /\ UNCHANGED raised
    /\ UNCHANGED <<known_tweets, merge_vars, render_vars, session_vars>>
    /\ UNCHANGED <<archive_tweets, saved_tweets, retried_times, consent, calls>>
    /\ UNCHANGED <<collect_vars, media_vars>>
    /\ UNCHANGED later_vars

\* download_tweets, lines 1407-1438: the breakdown of the ids, retried_times = 0
DownloadTweetsBegin ==
    /\ pc = "collected"
    /\ tweet_ids_to_download' = FilterIds(known_tweets, tweet_ids_to_download)
    /\ retried_times' = 0
    /\ pc' = "loop"
    /\ UNCHANGED <<known_tweets, raised, merge_vars, render_vars, session_vars>>
    /\ UNCHANGED <<archive_tweets, saved_tweets, consent, calls>>
    /\ UNCHANGED <<collect_vars, media_vars>>
    /\ UNCHANGED later_vars

\* a loop that allows one attempt more
LoopConditionLax == Len(tweet_ids_to_download) > 0 /\ retried_times <= max_retries

\* line 1450
LoopCondition == Len(tweet_ids_to_download) > 0 /\ retried_times < max_retries

\* line 1450 false: the loop ends
LoopExit ==
    /\ pc = "loop"
    /\ ~LoopCondition
    /\ pc' = "done"
    /\ UNCHANGED <<known_tweets, raised, merge_vars, render_vars, download_vars, session_vars>>
    /\ UNCHANGED <<collect_vars, media_vars>>
    /\ UNCHANGED later_vars

\* lines 1453-1454 and 1492-1494: get_consent; a refusal breaks the loop. The
\* answer is get_config('download_tweets'), "y" as shipped, or the user's
\* when get_config is edited to return None (lines 140-168)
AskConsent ==
    /\ pc = "loop"
    /\ LoopCondition
    /\ \E answer \in {"yes", "no"} :
          /\ consent' = answer
          /\ pc' = IF answer = "yes" THEN "session" ELSE "done"
    /\ UNCHANGED <<known_tweets, raised, merge_vars, render_vars, session_vars>>
    /\ UNCHANGED <<archive_tweets, saved_tweets, tweet_ids_to_download, retried_times, calls>>
    /\ UNCHANGED <<collect_vars, media_vars>>
    /\ UNCHANGED later_vars

\* lines 1461-1463 and 290-291: the guest token is issued and get_tweets is
\* entered with list(tweet_ids_to_download)
GetTweetsBegin ==
    /\ pc = "session"
    /\ api' = [api EXCEPT !.tokens_issued = @ + 1]
    /\ guest_token' = api'.tokens_issued
    /\ tweets' = EmptyDict
    /\ remaining_tweet_ids' = tweet_ids_to_download
    /\ calls' = [n |-> calls.n + 1, given |-> tweet_ids_to_download, returned |-> calls.returned]
    /\ pc' = "batch"
    /\ UNCHANGED <<known_tweets, raised, merge_vars, render_vars, request, status>>
    /\ UNCHANGED <<archive_tweets, saved_tweets, tweet_ids_to_download, retried_times, consent>>
    /\ UNCHANGED <<collect_vars, media_vars>>
    /\ UNCHANGED later_vars

\* lines 1461, 1484-1491: get_twitter_api_guest_token raises, the attempt is
\* over without a call of get_tweets
SessionFails ==
    /\ pc = "session"
    /\ retried_times' = IF Len(tweet_ids_to_download) > 0 THEN retried_times + 1
                        ELSE retried_times
    /\ consent' = "none"
    /\ pc' = "loop"
    /\ UNCHANGED <<known_tweets, raised, merge_vars, render_vars, session_vars>>
    /\ UNCHANGED <<archive_tweets, saved_tweets, tweet_ids_to_download, calls>>
    /\ UNCHANGED <<collect_vars, media_vars>>
    /\ UNCHANGED later_vars

\* a rate-limit handler that asks for a token and goes on with the old one
StaleToken(old_token, new_token) == old_token

\* line 314: guest_token = get_twitter_api_guest_token(session, bearer_token)
RefreshedToken(old_token, new_token) == new_token

\* lines 294-310: the request for the next batch
NextRequest == [n |-> request.n + 1, ids |-> Batch(remaining_tweet_ids), token |-> guest_token]

\* lines 293-322, status 200: the answers are kept and the batch is done
BatchSucceeds ==
    /\ pc = "batch"
    /\ remaining_tweet_ids # << >>
    /\ request' = NextRequest
    /\ status' = "200"
    /\ \E response_json \in Responses(request'.ids) :
          tweets' = StoreResponse(tweets, response_json, 1)
    /\ remaining_tweet_ids' = Rest(remaining_tweet_ids)
    /\ UNCHANGED <<pc, known_tweets, raised, merge_vars, render_vars, download_vars, guest_token, api>>
    /\ UNCHANGED <<collect_vars, media_vars>>
    /\ UNCHANGED later_vars

\* lines 293-315, status 429: a new guest token is asked for; with it the loop
\* continues, without it get_tweets returns (lines 323-327)
BatchRateLimited ==
    /\ pc = "batch"
    /\ remaining_tweet_ids # << >>
    /\ api.limited < MaxRateLimited
    /\ request' = NextRequest
    /\ status' = "429"
    /\ \/ /\ api' = [tokens_issued |-> api.tokens_issued + 1, limited |-> api.limited + 1]
          /\ guest_token' = RefreshedToken(guest_token, api'.tokens_issued)
          /\ UNCHANGED pc
       \/ /\ api' = [api EXCEPT !.limited = @ + 1]
          /\ UNCHANGED guest_token
          /\ pc' = "returned"
    /\ UNCHANGED <<known_tweets, raised, merge_vars, render_vars, download_vars>>
    /\ UNCHANGED <<tweets, remaining_tweet_ids>>
    /\ UNCHANGED <<collect_vars, media_vars>>
    /\ UNCHANGED later_vars

\* a failure handler that gives up what was fetched
DiscardFetched(fetched, remaining) == [tweets |-> EmptyDict, remaining |-> remaining]

\* what get_tweets returns (line 327) when the request fails
OnFailure(fetched, remaining) == [tweets |-> fetched, remaining |-> remaining]

\* lines 293-317 and 323-327: session.get raises, or the status is neither
\* 200 nor 429: get_tweets returns
BatchFails ==
    /\ pc = "batch"
    /\ remaining_tweet_ids # << >>
    /\ request' = NextRequest
    /\ \E outcome \in {"other", "exception"} : status' = outcome
    /\ tweets' = OnFailure(tweets, remaining_tweet_ids).tweets
    /\ remaining_tweet_ids' = OnFailure(tweets, remaining_tweet_ids).remaining
    /\ pc' = "returned"
    /\ UNCHANGED <<known_tweets, raised, merge_vars, render_vars, download_vars, guest_token, api>>
    /\ UNCHANGED <<collect_vars, media_vars>>
    /\ UNCHANGED later_vars

\* line 293 false, line 327: nothing remains, get_tweets returns
GetTweetsEnd ==
    /\ pc = "batch"
    /\ remaining_tweet_ids = << >>
    /\ pc' = "returned"
    /\ UNCHANGED <<known_tweets, raised, merge_vars, render_vars, download_vars, session_vars>>
    /\ UNCHANGED <<collect_vars, media_vars>>
    /\ UNCHANGED later_vars

\* a save that leaves the file as it is
KeepOldFile(outfile, store) == outfile

\* lines 1479-1481: json.dump(known_tweets, outfile), the new contents of the file
SaveTweets(outfile, store) == store

\* lines 1464-1491: the still-missing ids replace tweet_ids_to_download, the
\* fetched records are added to the store, the store is saved, the attempt counted
MergeDownloaded ==
    /\ pc = "returned"
    /\ tweet_ids_to_download' = remaining_tweet_ids
    /\ calls' = [calls EXCEPT !.returned = remaining_tweet_ids]
    /\ known_tweets' = AddDownloaded(known_tweets, tweets, 1)
    /\ saved_tweets' = SaveTweets(saved_tweets, known_tweets')
    /\ retried_times' = IF Len(tweet_ids_to_download') > 0 THEN retried_times + 1
                        ELSE retried_times
    /\ consent' = "none"
    /\ pc' = "loop"
    /\ UNCHANGED <<raised, merge_vars, render_vars, session_vars, archive_tweets>>
    /\ UNCHANGED <<collect_vars, media_vars>>
    /\ UNCHANGED later_vars

NextDownload ==
    \/ LoadTweets
    \/ CollectTweetIds
    \/ DownloadTweetsBegin
    \/ LoopExit
    \/ AskConsent
    \/ GetTweetsBegin
    \/ SessionFails
    \/ BatchSucceeds
    \/ BatchRateLimited
    \/ BatchFails
    \/ GetTweetsEnd
    \/ MergeDownloaded

SpecDownload == InitDownload /\ [][NextDownload]_vars

\* the user interrupts while download_tweets waits for the guest token
\* (line 1461), for the answer to a batch (get_tweets, lines 304-311) or
\* before the merge: KeyboardInterrupt is no Exception, so neither the handler
\* of get_tweets (line 323) nor that of download_tweets (line 1484) catches
\* it, and nothing else does: the process ends as it is
KeyboardInterrupt ==
    /\ pc \in {"session", "batch", "returned"}
    /\ pc' = "interrupted"
    /\ UNCHANGED <<known_tweets, raised, merge_vars, render_vars, download_vars, session_vars>>
    /\ UNCHANGED <<collect_vars, media_vars>>
    /\ UNCHANGED later_vars

SpecInterrupt == InitDownload /\ [][NextDownload \/ KeyboardInterrupt]_vars

\* the lists of ids get_tweets and get_twitter_users are called with: up to
\* four ids in any order, more than one batch holds
IdLists == UNION { Orderings(S) : S \in (SUBSET (Ids \cup {<<"4">>})) \ {{}} }

\* download_tweets at line 1461 with a list of ids to download, consent given
InitGetTweets ==
    /\ pc = "session"
    /\ tweet_ids_to_download \in IdLists
    /\ archive_tweets = << >>
    /\ saved_tweets = EmptyDict
    /\ known_tweets = EmptyDict
    /\ raised = NoExc
    /\ retried_times = 0
    /\ consent = "yes"
    /\ calls = NoCalls
    /\ IdleSession
    /\ IdleMerge
    /\ IdleRender
    /\ IdleCollect
    /\ IdleMedia
    /\ IdleLater

\* lines 293-315, status 429 once more, after the MaxRateLimited answers that
\* are counted: the same batch has been sent with the token in use, a new
\* token is issued and the loop continues. Nothing in the loop counts the
\* 429 answers; the tokens issued from here on are told apart from the
\* token in use only
BatchRateLimitedAgain ==
    /\ pc = "batch"
    /\ remaining_tweet_ids # << >>
    /\ api.limited >= MaxRateLimited
    /\ request' = [n |-> request.n, ids |-> Batch(remaining_tweet_ids), token |-> guest_token]
    /\ status' = "429"
    /\ guest_token' = RefreshedToken(guest_token,
                            IF guest_token = api.tokens_issued
                            THEN api.tokens_issued + 1 ELSE api.tokens_issued)
    /\ UNCHANGED <<pc, api, tweets, remaining_tweet_ids>>
    /\ UNCHANGED <<known_tweets, raised, merge_vars, render_vars, download_vars>>
    /\ UNCHANGED <<collect_vars, media_vars>>
    /\ UNCHANGED later_vars

\* get_tweets, lines 274-327, from the guest token on
NextGetTweets ==
    \/ GetTweetsBegin
    \/ BatchSucceeds
    \/ BatchRateLimited
    \/ BatchRateLimitedAgain
    \/ BatchFails
    \/ GetTweetsEnd

\* the loop of get_tweets takes its next step whenever it can; which answer
\* the service gives is left open
SpecGetTweets == InitGetTweets /\ [][NextGetTweets]_vars /\ WF_vars(NextGetTweets)

----------------------------------------------------------------------------
(* the account lookup: lookup_users and get_twitter_users *)

\* a record as users/lookup returns it
ApiUser(id) ==
    PyDict(<< << <<"id_str">>, PyStr(id) >>,
              << <<"screen_name">>, PyStr(<<"user", "_">> \o id) >> >>)

\* the answers to a batch of users/lookup: the records of the accounts that
\* exist, in the order asked for; the others are left out
UserResponses(batch) ==
    { LET F[i \in 0..Len(batch)] ==
              IF i = 0 THEN << >>
              ELSE IF i \in found THEN Append(F[i - 1], ApiUser(batch[i]))
              ELSE F[i - 1]
      IN  F[Len(batch)] : found \in SUBSET (1..Len(batch)) }

\* lines 266-267: users[user["id_str"]] = user for each record of the answer
RECURSIVE StoreUsers(_, _, _)
StoreUsers(fetched, response_json, i) ==
    IF i > Len(response_json) THEN fetched
    ELSE StoreUsers(Put(fetched, Get(response_json[i], <<"id_str">>).v, response_json[i]),
                    response_json, i + 1)

\* lookup_users at line 343 with the ids of the unknown accounts: nothing is
\* known yet, consent is given
InitUsers ==
    /\ pc = "lookup"
    /\ unknown_user_ids \in IdLists
    /\ user_ids = << >>
    /\ twitter_users = EmptyDict
    /\ user_requests = << >>
    /\ known_tweets = EmptyDict
    /\ raised = NoExc
    /\ IdleMerge
    /\ IdleDownload
    /\ IdleRender
    /\ IdleCollect
    /\ IdleMedia
    /\ IdleDMs
    /\ IdleVariants

\* lines 348-353 and 247-248: the guest token is issued and get_twitter_users
\* is entered with unknown_user_ids
GetTwitterUsersBegin ==
    /\ pc = "lookup"
    /\ user_ids' = unknown_user_ids
    /\ twitter_users' = EmptyDict
    /\ pc' = "users"
    /\ UNCHANGED <<unknown_user_ids, user_requests>>
    /\ UNCHANGED <<known_tweets, raised, merge_vars, render_vars, download_vars, session_vars>>
    /\ UNCHANGED <<collect_vars, media_vars, dm_vars, variant_vars>>

\* lines 249-269, status 200: the batch is taken off the list, asked for, and
\* the records of the answer are kept
UsersBatchSucceeds ==
    /\ pc = "users"
    /\ user_ids # << >>
    /\ user_ids' = Rest(user_ids)
    /\ user_requests' = Append(user_requests, [ids |-> Batch(user_ids), status |-> "200"])
    /\ \E response_json \in UserResponses(Batch(user_ids)) :
          twitter_users' = StoreUsers(twitter_users, response_json, 1)
    /\ UNCHANGED <<pc, unknown_user_ids>>
    /\ UNCHANGED <<known_tweets, raised, merge_vars, render_vars, download_vars, session_vars>>
    /\ UNCHANGED <<collect_vars, media_vars, dm_vars, variant_vars>>

\* lines 249-262, status 404: the batch is counted as failed and the loop
\* continues with the next one
UsersBatchNotFound ==
    /\ pc = "users"
    /\ user_ids # << >>
    /\ user_ids' = Rest(user_ids)
    /\ user_requests' = Append(user_requests, [ids |-> Batch(user_ids), status |-> "404"])
    /\ UNCHANGED <<pc, unknown_user_ids, twitter_users>>
    /\ UNCHANGED <<known_tweets, raised, merge_vars, render_vars, download_vars, session_vars>>
    /\ UNCHANGED <<collect_vars, media_vars, dm_vars, variant_vars>>

\* lines 249-264 and 369-370: session.get raises or the status is neither 200
\* nor 404: get_twitter_users raises, its users stay behind in the frame
\* that is left, and lookup_users prints the failure and returns
UsersBatchFails ==
    /\ pc = "users"
    /\ user_ids # << >>
    /\ user_ids' = Rest(user_ids)
    /\ \E outcome \in {"other", "exception"} :
          user_requests' = Append(user_requests, [ids |-> Batch(user_ids), status |-> outcome])
    /\ pc' = "failed"
    /\ UNCHANGED <<unknown_user_ids, twitter_users>>
    /\ UNCHANGED <<known_tweets, raised, merge_vars, render_vars, download_vars, session_vars>>
    /\ UNCHANGED <<collect_vars, media_vars, dm_vars, variant_vars>>

\* lines 249 false, 271 and 354-368: get_twitter_users returns its users and
\* lookup_users stores them
LookupUsersEnd ==
    /\ pc = "users"
    /\ user_ids = << >>
    /\ extended_user_data' = StoreRetrievedUsers(extended_user_data, twitter_users, 1)
    /\ users' = StoreUserHandles(users, twitter_users, 1)
    /\ pc' = "stored"
    /\ UNCHANGED <<arg_a, arg_b, merged, users_vars>>
    /\ UNCHANGED <<known_tweets, raised, render_vars, download_vars, session_vars>>
    /\ UNCHANGED <<collect_vars, media_vars, dm_vars, variant_vars>>

NextUsers ==
    \/ GetTwitterUsersBegin
    \/ UsersBatchSucceeds
    \/ UsersBatchNotFound
    \/ UsersBatchFails
    \/ LookupUsersEnd

SpecUsers == InitUsers /\ [][NextUsers]_vars

\* the two batch loops side by side
SpecBatches == (InitGetTweets \/ InitUsers) /\ [][NextGetTweets \/ NextUsers]_vars

----------------------------------------------------------------------------
(* direct messages: parse_direct_messages *)

\* the messages of one output file (1000 in the code), scaled down
page_size == 2

\* the messages of the longest conversation of the model
MaxMessages == 5

\* the archive owner: the account id of account.js and its username
OwnerId == <<"2">>
username == PyStr(<<"owner">>)

\* the conversation ids of the archive, "<user1>-<user2>" with the smaller
\* account id first: the owner with the accounts 1, 3 and 4
ConversationIds == {<< <<"1">>, OwnerId >>, << OwnerId, <<"3">> >>, << OwnerId, <<"4">> >>}

\* the account maps parse_direct_messages is called with: the owner unknown
\* (no lookup was made), known under the username, or known under an
\* earlier handle that a tweet mentions
AccountMaps ==
    {EmptyDict} \cup
    { PyDict(<< << OwnerId, UserData(PyStr(OwnerId), PyStr(handle)).val >> >>) :
        handle \in {<<"owner">>, <<"owner", "_old">>} }

\* lines 1756-1774: messages.append((timestamp, message_markdown)) for the
\* messages of the c-th conversation with the timestamps stamps; the markdown
\* is told apart by the conversation and the place in it
MessagesOf(c, stamps) ==
    [k \in 1..Len(stamps) |-> [timestamp |-> stamps[k], markdown |-> <<c, k>>]]

\* the sequences of up to n timestamps, in any order and with ties
StampLists(n) == UNION { [1..len -> {1, 2}] : len \in 0..n }

\* lines 1677 and 1777: the key under which a conversation is collected
OtherUserId(conversation_id, usrs) ==
    LET user1_id == conversation_id[1]
        user2_id == conversation_id[2]
    IN  IF HasKey(usrs, user1_id) /\ Get(usrs, user1_id).handle = username
        THEN user2_id ELSE user1_id

\* lines 1672-1780: conversations_messages[other_user_id].extend(messages)
\* for the conversations from the c-th on; a defaultdict keeps its keys in
\* the order they were first used
RECURSIVE CollectConversations(_, _, _, _)
CollectConversations(groups, dms, usrs, c) ==
    IF c > Len(dms) THEN groups
    ELSE LET key == OtherUserId(dms[c].conversationId, usrs)
             at == {g \in 1..Len(groups) : groups[g].key = key}
             next == IF at = {}
                     THEN Append(groups, [key |-> key, messages |-> dms[c].messages])
                     ELSE [groups EXCEPT ![CHOOSE g \in at : TRUE].messages = @ \o dms[c].messages]
         IN  CollectConversations(next, dms, usrs, c + 1)

\* line 1787: messages.sort(key=lambda tup: tup[0]); list.sort is stable
RECURSIVE SortByTimestamp(_)
SortByTimestamp(messages) ==
    IF Len(messages) <= 1 THEN messages
    ELSE LET front == SortByTimestamp(SubSeq(messages, 1, Len(messages) - 1))
             last == messages[Len(messages)]
             before == SelectSeq(front, LAMBDA m : m.timestamp <= last.timestamp)
             after == SelectSeq(front, LAMBDA m : m.timestamp > last.timestamp)
         IN  before \o <<last>> \o after

\* a splitter that leaves out the last chunk when it is not full
FullChunks(lst, n) ==
    [k \in 1..(Len(lst) \div n) |-> SubSeq(lst, (k - 1) * n + 1, k * n)]

\* chunks(lst, n), lines 1638-1641: lst[i:i + n] for i in range(0, len(lst), n)
chunks(lst, n) ==
    [k \in 1..((Len(lst) + n - 1) \div n) |->
        SubSeq(lst, (k - 1) * n + 1, Min(k * n, Len(lst)))]

\* line 1792: users[other_user_id].handle if other_user_id in users else
\* other_user_id, the name in the path of the output files
OtherUserShortName(other_user_id, usrs) ==
    IF HasKey(usrs, other_user_id) THEN Get(usrs, other_user_id).handle
    ELSE PyStr(other_user_id)

\* lines 1799-1828 for one group: the files written, each with the name and
\* the index of create_path_for_file_output_dms (0: no index, no suffix)
FilesOf(group, usrs) ==
    LET name == OtherUserShortName(group.key, usrs)
        parts == chunks(group.messages, page_size)
    IN  IF Len(group.messages) > page_size
        THEN [k \in 1..Len(parts) |-> [name |-> name, index |-> k, messages |-> parts[k]]]
        ELSE << [name |-> name, index |-> 0, messages |-> group.messages] >>

\* lines 1785-1830: the loop over conversations_messages.items()
RECURSIVE WriteGroups(_, _, _)
WriteGroups(groups, usrs, g) ==
    IF g > Len(groups) THEN << >>
    ELSE FilesOf(groups[g], usrs) \o WriteGroups(groups, usrs, g + 1)

\* direct-messages.js holds one conversation of up to MaxMessages messages,
\* or that and a second conversation with one message
InitDMs ==
    /\ pc = "dms"
    /\ \E id1 \in ConversationIds, stamps \in StampLists(MaxMessages) :
          \/ dms_json = << [conversationId |-> id1, messages |-> MessagesOf(1, stamps)] >>
          \/ \E id2 \in ConversationIds, stamp \in {1, 2} :
                dms_json = << [conversationId |-> id1, messages |-> MessagesOf(1, stamps)],
                              [conversationId |-> id2, messages |-> MessagesOf(2, <<stamp>>)] >>
    /\ users \in AccountMaps
    /\ conversations_messages = << >>
    /\ files = << >>
    /\ known_tweets = EmptyDict
    /\ raised = NoExc
    /\ IdleMergeArgs
    /\ extended_user_data = EmptyDict
    /\ IdleDownload
    /\ IdleRender
    /\ IdleCollect
    /\ IdleMedia
    /\ IdleUsers
    /\ IdleVariants

\* parse_direct_messages, lines 1663-1833
ParseDirectMessages ==
    /\ pc = "dms"
    /\ LET collected == CollectConversations(<< >>, dms_json, users, 1)
       IN  conversations_messages' =
               [g \in 1..Len(collected) |->
                   [collected[g] EXCEPT !.messages = SortByTimestamp(@)]]
    /\ files' = WriteGroups(conversations_messages', users, 1)
    /\ pc' = "written"
    /\ UNCHANGED dms_json
    /\ UNCHANGED <<known_tweets, raised, merge_vars, render_vars, download_vars, session_vars>>
    /\ UNCHANGED <<collect_vars, media_vars, users_vars, variant_vars>>

SpecDMs == InitDMs /\ [][ParseDirectMessages]_vars

----------------------------------------------------------------------------
(* videos and animated GIFs: collect_media_ids_from_tweet *)

\* the variants of the longest video_info of the model
MaxVariants == 3

\* the bitrates a variant declares: numbers as the API gives them and
\* strings of digits as the archive gives them ("10" is more than 2)
Bitrates == {PyInt(0), PyInt(2), PyStr(<<"2">>), PyStr(<<"1", "0">>)}

\* the k-th variant of video_info.variants, with or without a bitrate
Variant(k, bitrate) ==
    PyDict(<< << <<"url">>, PyStr(<<"https://video/", DigitTok(k)>>) >> >>
           \o IF bitrate = None THEN << >> ELSE << << <<"bitrate">>, bitrate >> >>)

VariantLists ==
    UNION { { [k \in 1..len |-> Variant(k, b[k])] : b \in [1..len -> Bitrates \cup {None}] } :
              len \in 0..MaxVariants }

\* int(variant['bitrate']), line 1096
IntOf(bitrate) == IF IsStr(bitrate) THEN py_int(bitrate.v) ELSE bitrate.v

\* a comparison that lets a later variant with the same bitrate win
NotWorse(bitrate, best_bitrate) == bitrate >= best_bitrate

\* line 1097: if bitrate > best_bitrate
Better(bitrate, best_bitrate) == bitrate > best_bitrate

\* lines 1092-1099: the loop over the variants from the k-th on
RECURSIVE BestVariant(_, _, _)
BestVariant(variants, best, k) ==
    IF k > Len(variants) THEN best
    ELSE IF HasKey(variants[k], <<"bitrate">>)
            /\ Better(IntOf(Get(variants[k], <<"bitrate">>)), best.best_bitrate)
         THEN BestVariant(variants,
                          [best_quality_url |-> Get(variants[k], <<"url">>),
                           best_bitrate |-> IntOf(Get(variants[k], <<"bitrate">>))],
                          k + 1)
         ELSE BestVariant(variants, best, k + 1)

\* lines 1071-1122 for one item of type video or animated_gif: the files of
\* the archive that start with the tweet id give the local name (the last
\* one stays), the variants the best url; without a bitrate a warning is
\* printed and nothing is recorded
CollectVideo(item) ==
    LET paths_found == item.archive_media_paths
        from_archive == IF Len(paths_found) > 0
                        THEN PyStr(<<"media/">> \o paths_found[Len(paths_found)])
                        ELSE None
        best == BestVariant(item.variants, [best_quality_url |-> PyStr(<< >>), best_bitrate |-> -1], 1)
        file_output_media == IF from_archive = None
                             THEN PyStr(<<"media/">> \o SubSeq(best.best_quality_url.v, 2, 2))
                             ELSE from_archive
    IN  IF best.best_bitrate = -1
        THEN [tweet_media |-> << >>, media_sources |-> << >>]
        ELSE [tweet_media |-> << [id |-> item.id_str, type |-> item.type,
                                  best_quality_url |-> best.best_quality_url,
                                  local_filename |-> file_output_media] >>,
              media_sources |-> << <<file_output_media, best.best_quality_url>> >>]

\* a tweet of the archive with one video or animated GIF, its variants, and
\* the files of the archive whose names start with the tweet id
InitVariants ==
    /\ pc = "media"
    /\ \E type \in {"video", "animated_gif"}, variants \in VariantLists,
          archive_media_paths \in {<< >>, << <<"1-clip.mp4">> >>} :
          media_item = [id_str |-> <<"7">>, type |-> type, variants |-> variants,
                        archive_media_paths |-> archive_media_paths]
    /\ collected_media = [tweet_media |-> << >>, media_sources |-> << >>]
    /\ known_tweets = EmptyDict
    /\ raised = NoExc
    /\ IdleMerge
    /\ IdleDownload
    /\ IdleRender
    /\ IdleCollect
    /\ IdleMedia
    /\ IdleUsers
    /\ IdleDMs

\* collect_media_ids_from_tweet, lines 1028-1125, for the tweet of the item
CollectMediaIds ==
    /\ pc = "media"
    /\ collected_media' = CollectVideo(media_item)
    /\ pc' = "collected"
    /\ UNCHANGED media_item
    /\ UNCHANGED <<known_tweets, raised, merge_vars, render_vars, download_vars, session_vars>>
    /\ UNCHANGED <<collect_vars, media_vars, users_vars, dm_vars>>

SpecVariants == InitVariants /\ [][CollectMediaIds]_vars

----------------------------------------------------------------------------
(* rendering a store of records that quote each other *)

\* the longest chain of quoting records
MaxChain == 7

\* the deepest depth convert_tweet is called with
MaxDepth == 6

IdTok(i) == <<DigitTok(i)>>

Defects ==
    {"no_body", "null_body", "no_created_at", "no_id", "flagged",
     "author_null_handle", "author_no_handle", "author_no_name"}

AuthorDefects == {"author_null_handle", "author_no_handle", "author_no_name"}

\* the chains: record i quotes record i + 1, the last record quotes nothing
\* ("end"), itself ("self") or record 1 ("cycle"); at most one record is defective
Scenarios ==
    { sc \in [len : 1..MaxChain, tail : {"end", "self", "cycle"},
              defect_at : 0..MaxChain, defect : Defects \cup {"none"}] :
        /\ sc.defect_at <= sc.len
        /\ (sc.defect_at = 0) = (sc.defect = "none") }

QuotedBy(sc, i) ==
    IF i < sc.len THEN i + 1
    ELSE IF sc.tail = "self" THEN i
    ELSE IF sc.tail = "cycle" THEN 1
    ELSE 0

\* record i of the scenario: the records at odd places are of the archive, those
\* at even places were downloaded and name their author, account 5; a record
\* with a defective author names account 6
RenderTweet(sc, i) ==
    LET defect == IF sc.defect_at = i THEN sc.defect ELSE "none"
        urls == IF QuotedBy(sc, i) = 0 THEN << >>
                ELSE << PyDict(<< << <<"url">>, PyStr(<<"https://t.co/x">>) >>,
                                  << <<"expanded_url">>, StatusUrl(IdTok(QuotedBy(sc, i))) >>,
                                  << <<"display_url">>, PyStr(<<"twitter.com/bob/status">>) >> >>) >>
        body == IF defect = "no_body" THEN << >>
                ELSE << << <<"full_text">>,
                           IF defect = "null_body" THEN None ELSE PyStr(<<"hello">>) >> >>
        date == IF defect = "no_created_at" THEN << >>
                ELSE << << <<"created_at">>, PyStr(<<"Tue Mar 19 14:05:17 +0000 2019">>) >> >>
        author == IF defect \in AuthorDefects THEN <<"6">> ELSE <<"5">>
        origin == IF i % 2 = 1 /\ defect \notin AuthorDefects
                  THEN << << <<"from_archive">>, PyBool(TRUE) >> >>
                  ELSE << << <<"user">>, PyDict(<< << <<"id_str">>, PyStr(author) >> >>) >>,
                          << <<"from_api">>, PyBool(TRUE) >> >>
    IN  IF defect = "flagged" THEN Get(add_known_tweet(EmptyDict, IdTok(i), None), IdTok(i))
        ELSE PyDict((IF defect = "no_id" THEN << >>
                     ELSE << << <<"id_str">>, PyStr(IdTok(i)) >> >>) \o body \o date
                    \o << << <<"entities">>, PyDict(<< << <<"urls">>, PyList(urls) >> >>) >> >>
                    \o origin)

\* an account as users/lookup returns it; screen_name can be null (line 367)
Account(id, defect) ==
    PyDict((IF defect = "author_no_handle" THEN << >>
            ELSE << << <<"screen_name">>,
                       IF defect = "author_null_handle" THEN None ELSE PyStr(<<"bob">>) >> >>)
           \o << << <<"description">>, PyStr(<<"hi">>) >> >>
           \o (IF defect = "author_no_name" THEN << >>
               ELSE << << <<"name">>, PyStr(<<"Bob">>) >> >>)
           \o << << <<"id_str">>, PyStr(id) >> >>)

\* the owner of the archive
OwnUser == UserData(PyStr(<<"1", "0", "0">>), PyStr(<<"me">>)).val

InitRender ==
    /\ pc = "start"
    /\ scenario \in Scenarios
    /\ known_tweets = PyDict([i \in 1..scenario.len |-> <<IdTok(i), RenderTweet(scenario, i)>>])
    /\ extended_user_data =
           PyDict(<< <<<<"5">>, Account(<<"5">>, "none")>> >>
                  \o IF scenario.defect \in AuthorDefects
                     THEN << <<<<"6">>, Account(<<"6">>, scenario.defect)>> >>
                     ELSE << >>)
    /\ users = PyDict(<< <<OwnUser.user_id.v, OwnUser>> >>)
    /\ raised = NoExc
    /\ depth_arg = 0
    /\ rendered = [exc |-> NoExc, html |-> NoHtml]
    /\ converted_tweets = << >>
    /\ IdleMergeArgs
    /\ IdleDownload
    /\ IdleCollect
    /\ IdleMedia
    /\ IdleLater

\* a renderer that notes in the first record of the store that it was rendered
StoreMarkedRendered(known) ==
    IF Len(known.v) = 0 THEN known
    ELSE Put(known, known.v[1][1], Put(known.v[1][2], <<"rendered">>, PyBool(TRUE)))

\* what convert_tweets, convert_tweet (lines 651-796) and
\* collect_media_ids_from_tweet (lines 1035-1125) do to known_tweets: the
\* records are read, unwrap_tweet (line 651) returns the record or its inner
\* dict, every assignment goes to egg, tweet_media, media_sources or
\* converted_tweets, and egg['inner_tweet'] (line 769) is the stored record
\* itself, which the recursive call reads in the same way
StoreAfterRender(known) == known

\* convert_tweet(known_tweets['1'], ..., depth)
ConvertTweet ==
    /\ pc = "start"
    /\ \E depth \in 0..MaxDepth :
          /\ depth_arg' = depth
          /\ rendered' = convert_tweet(Get(known_tweets, IdTok(1)), known_tweets, OwnUser,
                                       users, extended_user_data, depth)
    /\ raised' = rendered'.exc
    /\ pc' = "converted"
    /\ known_tweets' = StoreAfterRender(known_tweets)
    /\ UNCHANGED <<merge_vars, download_vars, session_vars>>
    /\ UNCHANGED <<scenario, converted_tweets>>
    /\ UNCHANGED <<collect_vars, media_vars>>
    /\ UNCHANGED later_vars

\* convert_tweets: every record of the archive is converted at depth 0 (lines
\* 1508-1534) and what was converted is written to the output (lines 1535-1562;
\* the records share their timestamp, the sort keeps their order). An
\* exception that leaves the loop leaves convert_tweets before anything is written.
ConvertTweets ==
    /\ pc = "start"
    /\ LET r == ConvertFrom(known_tweets, OwnUser, users, extended_user_data, 1, << >>)
       IN  /\ converted_tweets' = IF Raised(r.exc) THEN << >> ELSE r.val
           /\ raised' = r.exc
           /\ pc' = IF Raised(r.exc) THEN "aborted" ELSE "all_converted"
    /\ known_tweets' = StoreAfterRender(known_tweets)
    /\ UNCHANGED <<merge_vars, download_vars, session_vars>>
    /\ UNCHANGED <<scenario, depth_arg, rendered>>
    /\ UNCHANGED <<collect_vars, media_vars>>
    /\ UNCHANGED later_vars

NextRender == ConvertTweet \/ ConvertTweets

SpecRender == InitRender /\ [][NextRender]_vars

----------------------------------------------------------------------------
(* collect_tweet_references on one record of the archive *)

\* how a record holds id_str and id: a value, None, or not at all
IdForms == {"value", "null", "absent"}

IdField(key, form, value) ==
    IF form = "absent" THEN << >>
    ELSE << <<key, IF form = "null" THEN None ELSE value>> >>

\* record 1 as load_tweets stores it: a plain tweet, a retweet ("rt") or a
\* tweet with media, that may quote tweet 2 and reply to tweet 3, and may
\* have been fetched again (from_api, download_with_alt_text)
CollectorTweet(kind, id_str, id, quotes, replies, refetched) ==
    LET inner == Get(ArchiveTweet(<<"1">>, kind, quotes, replies), <<"tweet">>)
        again == IF refetched
                 THEN << << <<"from_api">>, PyBool(TRUE) >>,
                         << <<"download_with_alt_text">>, PyBool(TRUE) >> >>
                 ELSE << >>
    IN  PyDict(IdField(<<"id_str">>, id_str, PyStr(<<"1">>))
               \o IdField(<<"id">>, id, PyInt(1))
               \o Tail(inner.v)
               \o << << <<"from_archive">>, PyBool(TRUE) >> >>
               \o again)

InitCollect ==
    /\ pc = "start"
    /\ \E kind \in {"plain", "rt", "media"}, id_str \in IdForms, id \in IdForms,
          quotes \in BOOLEAN, replies \in BOOLEAN, refetched \in BOOLEAN :
          tweet = CollectorTweet(kind, id_str, id, quotes, replies, refetched)
    /\ tweet_ids = [val |-> {}, exc |-> NoExc]
    /\ known_tweets \in {EmptyDict, PyDict(<< << <<"2">>, ApiTweet(<<"2">>) >> >>)}
    /\ raised = NoExc
    /\ IdleMerge
    /\ IdleDownload
    /\ IdleRender
    /\ IdleMedia
    /\ IdleLater

\* collect_tweet_references(tweet, known_tweets)
CollectTweetReferences ==
    /\ pc = "start"
    /\ tweet_ids' = collect_tweet_references(tweet, known_tweets)
    /\ raised' = tweet_ids'.exc
    /\ pc' = "references_collected"
    /\ UNCHANGED <<tweet, known_tweets>>
    /\ UNCHANGED <<merge_vars, download_vars, session_vars, render_vars, media_vars>>
    /\ UNCHANGED later_vars

NextCollect == CollectTweetReferences

SpecCollect == InitCollect /\ [][NextCollect]_vars

----------------------------------------------------------------------------
(* main from line 2612 on: download_user_images, the media of the tweets,
   export_media_download_state *)

\* line 2615
error_codes_to_exclude == {"status 403", "status 404"}

\* line 1270
first_remaining_tries == 5

\* what download_file_if_larger returns for a url: success, a status that is
\* not retried in a later run, or another error
Outcomes ==
    { [success |-> TRUE, error |-> "none"],
      [success |-> FALSE, error |-> "status 404"],
      [success |-> FALSE, error |-> "timed out"] }

\* lines 1279-1282 and 2651-2653: the url needs no download
Settled(state, url) == state[url].success \/ state[url].error \in error_codes_to_exclude

Unsettled(sources, state) == SelectSeq(sources, LAMBDA url : ~Settled(state, url))

\* lines 1294-1325: state.update for the first n of the items, where out[i]
\* is the outcome of the i-th download; a url that several local paths
\* point to is in the items several times, and its last outcome stays
Updated(state, items, n, out) ==
    [url \in MediaUrls |->
        LET at == {i \in 1..n : items[i] = url}
        IN  IF at = {} THEN state[url]
            ELSE out[CHOOSE i \in at : \A j \in at : j <= i]]

\* lines 1294-1325: retries.append for every download that did not succeed
FailedItems(items, out) ==
    LET F[i \in 0..Len(items)] ==
            IF i = 0 THEN << >>
            ELSE IF out[i].success THEN F[i - 1]
            ELSE Append(F[i - 1], items[i])
    IN  F[Len(items)]

\* the first n downloads of a pass, each with the entry the state map held
\* for its url when download_file_if_larger was called
Attempted(state, items, n, out) ==
    [i \in 1..n |-> <<items[i], Updated(state, items, i - 1, out)[items[i]]>>]

\* the urls of the media of the tweets, one for each local path: no media,
\* one, two, and the same media in two tweets (a retweet and its original)
MediaWorklists == {<< >>, <<"m1">>, <<"m1", "m2">>, <<"m1", "m1">>}

\* lines 2530-2534: the state map is read from the file of an earlier run
InitMedia ==
    /\ pc = "start"
    /\ state_file \in [MediaUrls -> {NoEntry} \cup Outcomes]
    /\ media_download_state = state_file
    /\ \E profile \in {<< >>, <<"p1">>}, of_tweets \in MediaWorklists :
          media_sources = [profile |-> profile, tweets |-> of_tweets]
    /\ remaining_media_sources = << >>
    /\ remaining_tries = 0
    /\ stage = "none"
    /\ downloads = << >>
    /\ known_tweets = EmptyDict
    /\ raised = NoExc
    /\ IdleMerge
    /\ IdleDownload
    /\ IdleRender
    /\ IdleCollect
    /\ IdleLater

\* download_user_images (line 2617), up to the call of download_larger_media
DownloadUserImages ==
    /\ pc = "start"
    /\ \E agreed \in BOOLEAN :
          IF Len(media_sources.profile) > 0 /\ agreed
          THEN /\ stage' = "profile"
               /\ remaining_media_sources' = media_sources.profile
               /\ remaining_tries' = first_remaining_tries
               /\ pc' = "pass"
          ELSE /\ pc' = "converted"
               /\ UNCHANGED <<stage, remaining_media_sources, remaining_tries>>
    /\ UNCHANGED <<media_sources, media_download_state, state_file, downloads>>
    /\ UNCHANGED <<known_tweets, raised, merge_vars, download_vars, session_vars, render_vars,
                   collect_vars>>
    /\ UNCHANGED later_vars

\* main, lines 2649-2674: the media of the tweets that the state map does not
\* settle, up to the call of download_larger_media
DownloadMedia ==
    /\ pc = "converted"
    /\ \E agreed \in BOOLEAN :
          LET new_media_sources == Unsettled(media_sources.tweets, media_download_state)
          IN  IF Len(new_media_sources) > 0 /\ agreed
              THEN /\ stage' = "media"
                   /\ remaining_media_sources' = new_media_sources
                   /\ remaining_tries' = first_remaining_tries
                   /\ pc' = "pass"
              ELSE /\ pc' = "export"
                   /\ UNCHANGED <<stage, remaining_media_sources, remaining_tries>>
    /\ UNCHANGED <<media_sources, media_download_state, state_file, downloads>>
    /\ UNCHANGED <<known_tweets, raised, merge_vars, download_vars, session_vars, render_vars,
                   collect_vars>>
    /\ UNCHANGED later_vars

\* download_larger_media, lines 1275-1335: one pass of the while loop
DownloadPass ==
    /\ pc = "pass"
    /\ remaining_tries > 0
    /\ LET items == Unsettled(remaining_media_sources, media_download_state)
       IN  \E out \in [1..Len(items) -> Outcomes] :
              LET retries == FailedItems(items, out) IN
              /\ media_download_state' = Updated(media_download_state, items, Len(items), out)
              /\ downloads' = Attempted(media_download_state, items, Len(items), out)
              /\ remaining_media_sources' = retries
              /\ remaining_tries' = remaining_tries - 1
              /\ pc' = IF Len(retries) = 0 \/ remaining_tries' = 0
                       THEN IF stage = "profile" THEN "converted" ELSE "export"
                       ELSE "pass"
    /\ UNCHANGED <<media_sources, state_file, stage>>
    /\ UNCHANGED <<known_tweets, raised, merge_vars, download_vars, session_vars, render_vars,
                   collect_vars>>
    /\ UNCHANGED later_vars

\* lines 1338-1342: KeyboardInterrupt in a pass, after n of its items: the
\* state map is exported and the run ends
InterruptedPass ==
    /\ pc = "pass"
    /\ remaining_tries > 0
    /\ LET items == Unsettled(remaining_media_sources, media_download_state)
       IN  \E n \in 0..Len(items) : \E out \in [1..n -> Outcomes] :
              /\ media_download_state' = Updated(media_download_state, items, n, out)
              /\ downloads' = Attempted(media_download_state, items, n, out)
              /\ state_file' = media_download_state'
    /\ pc' = "exited"
    /\ UNCHANGED <<media_sources, remaining_media_sources, remaining_tries, stage>>
    /\ UNCHANGED <<known_tweets, raised, merge_vars, download_vars, session_vars, render_vars,
                   collect_vars>>
    /\ UNCHANGED later_vars

\* main, line 2678: export_media_download_state
ExportMediaDownloadState ==
    /\ pc = "export"
    /\ state_file' = media_download_state
    /\ pc' = "done"
    /\ UNCHANGED <<media_sources, media_download_state, remaining_media_sources,
                   remaining_tries, stage, downloads>>
    /\ UNCHANGED <<known_tweets, raised, merge_vars, download_vars, session_vars, render_vars,
                   collect_vars>>
    /\ UNCHANGED later_vars

NextMedia ==
    \/ DownloadUserImages
    \/ DownloadMedia
    \/ DownloadPass
    \/ InterruptedPass
    \/ ExportMediaDownloadState

SpecMedia == InitMedia /\ [][NextMedia]_vars

----------------------------------------------------------------------------
(* properties of the merge engine *)

\* the record of the input that holds the field (see Shaped)
Inner(d) ==
    IF HasKey(d, <<"user">>) THEN Get(d, <<"user">>)
    ELSE IF HasKey(d, <<"media">>) THEN Get(d, <<"media">>).v[1]
    ELSE d

CommonKeys(a, b) == DictKeys(a) \cap DictKeys(b)

IsScalar(x) == x.t \in {"str", "int", "bool"}
NumericallyEqual(x, y) ==
    /\ parse_as_number(x).t # "null"
    /\ parse_as_number(y).t # "null"
    /\ NumVal(parse_as_number(x)) = NumVal(parse_as_number(y))

\* the genuine scalar conflicts between a and b: <<path, value in a, value
\* in b>>, through nested mappings and through list elements that are
\* mappings with the same id_str (where the path starts anew)
RECURSIVE GenuineConflicts(_, _, _)
GenuineConflicts(a, b, path) ==
    UNION { LET va == Get(a, key)
                vb == Get(b, key)
            IN  IF IsDict(va) /\ IsDict(vb) THEN GenuineConflicts(va, vb, path \o <<key>>)
                ELSE IF IsList(va) /\ IsList(vb)
                     THEN UNION { IF /\ IsDict(va.v[i]) /\ IsDict(vb.v[j])
                                     /\ has_path(va.v[i], << <<"id_str">> >>)
                                     /\ has_path(vb.v[j], << <<"id_str">> >>)
                                     /\ PyEq(Get(va.v[i], <<"id_str">>), Get(vb.v[j], <<"id_str">>))
                                  THEN GenuineConflicts(va.v[i], vb.v[j], << >>)
                                  ELSE {}
                                  : i \in 1..Len(va.v), j \in 1..Len(vb.v) }
                ELSE IF /\ IsScalar(va) /\ IsScalar(vb)
                        /\ ~PyEq(va, vb) /\ ~NumericallyEqual(va, vb)
                        /\ ~EndsWithCount(key) /\ key \notin VolatileKeys
                     THEN { <<path \o <<key>>, va, vb>> }
                ELSE {}
            : key \in CommonKeys(a, b) }

\* C1: merge_dicts(a, b) fails with a conflict error naming the field path
\* and both values whenever a and b hold, under the same key, two different
\* non-null scalars that are not numerically equal (the key neither a
\* counter nor a volatile field), at every nesting depth.
C1_ConflictRaises ==
    (pc = "merged" /\ GenuineConflicts(arg_a, arg_b, << >>) # {}) =>
        /\ merged.exc.kind = "Conflict"
        /\ \E c \in GenuineConflicts(arg_a, arg_b, << >>) :
              /\ merged.exc.path = c[1]
              /\ merged.exc.va = c[2]
              /\ merged.exc.vb = c[3]

\* C2: for a key present in both a and b where exactly one of the two
\* values is null, merge_dicts(a, b) leaves a[key] equal to the non-null
\* value, whichever side holds it and whatever its type.
C2_NullYieldsOther ==
    pc = "merged" =>
        \A key \in CommonKeys(Inner(arg_a), Inner(arg_b)) :
            LET va == Get(Inner(arg_a), key)
                vb == Get(Inner(arg_b), key)
            IN  ((va.t = "null") # (vb.t = "null")) =>
                    /\ ~Raised(merged.exc)
                    /\ PyEq(Get(Inner(merged.val), key), IF va.t = "null" THEN vb ELSE va)

\* an integer or a numeric string, and the number it stands for
IsNumberLike(x) == x.t = "int" \/ (x.t = "str" /\ isnumeric(x.v))
NumberOf(x) == IF x.t = "int" THEN x.v ELSE py_int(x.v)
Larger(m, n) == IF m >= n THEN m ELSE n

\* C3: for a key ending in '_count' present in both a and b with different
\* values, each an integer or a numeric string, merge_dicts(a, b) sets
\* a[key] to the larger of the two numbers, whichever side holds it.
\* (Integer 3 and string "3" are different values with the same number.)
C3_CountTakesMax ==
    pc = "merged" =>
        \A key \in CommonKeys(Inner(arg_a), Inner(arg_b)) :
            LET va == Get(Inner(arg_a), key)
                vb == Get(Inner(arg_b), key)
                res == Get(Inner(merged.val), key)
            IN  (EndsWithCount(key) /\ IsNumberLike(va) /\ IsNumberLike(vb) /\ ~PyEq(va, vb)) =>
                    /\ ~Raised(merged.exc)
                    /\ IsNumberLike(res)
                    /\ NumberOf(res) = Larger(NumberOf(va), NumberOf(vb))
                    \* where merge_dicts is applied to the record holding the key
                    \* (list elements equal up to types are left as they are)
                    /\ ~HasKey(arg_a, <<"media">>) => res.t = "int"

\* {retweet_count: 3} merged with {retweet_count: 7} has left retweet_count 7
C3_Witness ==
    /\ pc = "merged"
    /\ arg_a = PyDict(<< << <<"retweet", "_count">>, PyInt(3) >> >>)
    /\ arg_b = PyDict(<< << <<"retweet", "_count">>, PyInt(7) >> >>)
    /\ merged.val = PyDict(<< << <<"retweet", "_count">>, PyInt(7) >> >>)

\* C4: when re-merging a new view into a stored record (add_known_tweet,
\* lookup_users) hits a merge conflict, the error does not reach the caller
\* and the stored record is exactly the record stored before the call.
C4_FailedMergeKeepsStored ==
    (pc \in {"added", "looked_up"} /\ merge_dicts(arg_a, arg_b, << >>).exc.kind = "Conflict") =>
        /\ raised = NoExc
        /\ Get(known_tweets, TheId) = arg_a
        /\ Get(extended_user_data, TheId) = arg_a

----------------------------------------------------------------------------
(* properties of the download *)

\* the ids get_tweets has an answer for, in the order of the answers
FetchedIds == [i \in 1..Len(tweets.v) |-> tweets.v[i][1]]

NoneFlagged(ids) == \A i \in 1..Len(ids) : ~ApiReturnedNull(known_tweets, ids[i])

\* C5: in a run of load_tweets, collect_tweet_ids_from_tweets and
\* download_tweets, no id that the store flags api_returned_null is given to
\* get_tweets or asked for in a request, and a flagged record stays in the
\* store, flagged: from the saved store through load_tweets, and from step to step
C5_NullNeverRefetched ==
    [][ /\ (calls'.n # calls.n => NoneFlagged(calls'.given))
        /\ (request'.n # request.n => NoneFlagged(request'.ids))
        /\ (pc = "start" =>
              \A id \in Ids : ApiReturnedNull(saved_tweets, id)
                                 => ApiReturnedNull(known_tweets', id))
        /\ \A id \in Ids : ApiReturnedNull(known_tweets, id)
                              => ApiReturnedNull(known_tweets', id) ]_vars

\* get_tweets is called with tweet 2 alone while tweet 1, a retweet of the
\* archive whose own id the collector asks for, is flagged in the store
C5_Witness ==
    /\ calls.n = 1
    /\ calls.given = << <<"2">> >>
    /\ ApiReturnedNull(known_tweets, <<"1">>)
    /\ WantsRetweetBody(Get(known_tweets, <<"1">>))
    /\ ApiReturnedNull(saved_tweets, <<"1">>)

\* C6: a request answered with a status other than 200 and 429, or raising,
\* ends get_tweets: the records fetched and the remaining ids are returned as
\* they were, the remaining ids are the failed batch followed by the ids of the
\* batches not attempted, in the order given, and no request follows the return
C6_FailureKeepsProgress ==
    [][ /\ (request'.n # request.n /\ status' \in {"other", "exception"} =>
              /\ pc' = "returned"
              /\ tweets' = tweets
              /\ remaining_tweet_ids' = remaining_tweet_ids
              /\ calls.given = FetchedIds' \o remaining_tweet_ids'
              /\ request'.ids = Batch(remaining_tweet_ids')
              /\ Len(FetchedIds') % max_batch = 0)
        /\ (pc = "returned" =>
              /\ request' = request
              /\ tweet_ids_to_download' = remaining_tweet_ids
              /\ \A i \in 1..Len(tweets.v) : HasKey(known_tweets', tweets.v[i][1])) ]_vars

\* of three ids the first batch of two was answered and the second failed
C6_Witness ==
    /\ pc = "returned"
    /\ status = "other"
    /\ Len(calls.given) = 3
    /\ Len(tweets.v) = 2
    /\ remaining_tweet_ids = SubSeq(calls.given, 3, 3)

\* C7: a request answered with 429 leaves the fetched records and the
\* remaining ids as they were; when get_tweets goes on, it does so with a
\* token issued after the request; and the request that follows a 429 asks
\* for the same ids with the token issued last, not the one of the request
\* that was rate limited
C7_RateLimitRetriesBatch ==
    [][ /\ (request'.n # request.n /\ status' = "429" =>
              /\ tweets' = tweets
              /\ remaining_tweet_ids' = remaining_tweet_ids
              /\ (pc' = "batch" => guest_token' > api.tokens_issued))
        /\ (request'.n # request.n /\ status = "429" =>
              /\ request'.ids = request.ids
              /\ request'.token # request.token
              /\ request'.token = api.tokens_issued) ]_vars

\* the second batch was rate limited once and then answered under the third token
C7_Witness ==
    /\ calls.n = 1
    /\ Len(calls.given) = 3
    /\ status = "200"
    /\ api.limited = 1
    /\ request = [n |-> 3, ids |-> SubSeq(calls.given, 3, 3), token |-> 2]
    /\ Len(tweets.v) = 3
    /\ remaining_tweet_ids = << >>

\* C8: get_tweets is called at most max_retries times; each call is made
\* right after a consent answered yes; each call after the first is given
\* the ids the call before returned; and the loop ends when no id is
\* missing, when consent is refused and when max_retries attempts were made,
\* after which no call follows
C8_RetryPolicy ==
    [][ /\ calls'.n <= max_retries
        /\ retried_times' <= max_retries
        /\ (calls'.n # calls.n =>
              /\ pc = "session"
              /\ consent = "yes"
              /\ calls'.given = tweet_ids_to_download
              /\ (calls.n > 0 => calls'.given = calls.returned))
        /\ (pc = "loop" /\ pc' = "session" => consent' = "yes")
        /\ (pc = "loop" /\ (Len(tweet_ids_to_download) = 0 \/ retried_times >= max_retries)
              => pc' = "done")
        /\ (pc = "loop" /\ consent' = "no" => pc' = "done")
        /\ (pc = "loop" /\ pc' = "done" =>
              \/ Len(tweet_ids_to_download) = 0
              \/ retried_times = max_retries
              \/ consent' = "no")
        /\ (pc = "done" => calls' = calls) ]_vars

\* the fifth call of get_tweets has returned with ids still missing and the
\* loop has ended
C8_Witness ==
    /\ pc = "done"
    /\ calls.n = max_retries
    /\ retried_times = max_retries
    /\ consent = "none"
    /\ Len(tweet_ids_to_download) > 0

----------------------------------------------------------------------------
(* properties of the rendering *)

\* the levels of an HTML: the record and the quoted records rendered inside it
RECURSIVE Levels(_)
Levels(html) ==
    IF html.quote.kind = "html" THEN 1 + Levels(html.quote.html) ELSE 1

\* the depths of the calls of convert_tweet whose error of the given kind
\* became a notice in the HTML that the call at the given depth returned
RECURSIVE NoticeDepths(_, _, _)
NoticeDepths(html, depth, kind) ==
    IF html.quote.kind = "notice"
    THEN IF html.quote.error = kind THEN {depth + 1} ELSE {}
    ELSE IF html.quote.kind = "html" THEN NoticeDepths(html.quote.html, depth + 1, kind)
    ELSE {}

\* the records a chain without a defect offers to a renderer without a limit
ChainLength(sc) == IF sc.tail = "end" THEN sc.len ELSE depth_limit + 1

\* C9: convert_tweet raises the recursion-limit error exactly when called
\* with depth >= 5. Inside an HTML it returns, the notice of that error stands
\* for the call at depth 5 and no other, and no level is rendered at depth 5
\* or more. A chain without a defect rendered from depth 0 shows its first 5
\* records and the notice in place of the 6th, if it has one; a chain of 5 or
\* fewer shows every record and no notice; a record quoting itself and a cycle
\* are cut in the same place.
C9_RecursionLimit ==
    pc = "converted" =>
        /\ (rendered.exc = QuoteRecursionDepthError) = (depth_arg >= 5)
        /\ ~Raised(rendered.exc) =>
              /\ NoticeDepths(rendered.html, depth_arg, "QuoteRecursionDepthError") \subseteq {5}
              /\ depth_arg + Levels(rendered.html) <= 5
              /\ scenario.defect_at = 0 =>
                    /\ Levels(rendered.html) = Min(ChainLength(scenario), 5 - depth_arg)
                    /\ (NoticeDepths(rendered.html, depth_arg, "QuoteRecursionDepthError") = {5})
                           = (ChainLength(scenario) > 5 - depth_arg)

\* a chain of 6 records rendered from depth 0: 5 levels, and the notice of
\* the recursion limit for the 6th
C9_Witness ==
    /\ pc = "converted"
    /\ scenario = [len |-> 6, tail |-> "end", defect_at |-> 0, defect |-> "none"]
    /\ depth_arg = 0
    /\ ~Raised(rendered.exc)
    /\ Levels(rendered.html) = 5
    /\ NoticeDepths(rendered.html, 0, "QuoteRecursionDepthError") = {5}

\* C10: when record 1 quotes a known record that cannot be rendered (it is
\* the defective record of the scenario, or it is called at the depth limit),
\* convert_tweet of record 1 raises nothing and its HTML holds the notice in
\* place of the quoted record
C10_QuoteFailureContained ==
    (/\ pc = "converted"
     /\ depth_arg < 5
     /\ scenario.len >= 2
     /\ scenario.defect_at # 1
     /\ (scenario.defect_at = 2 \/ depth_arg = 4)) =>
        /\ ~Raised(rendered.exc)
        /\ rendered.html.quote.kind = "notice"

\* the archive records of the store that convert_tweet renders at depth 0
Renderable ==
    { i \in 1..Len(known_tweets.v) :
        /\ HasKey(known_tweets.v[i][2], <<"from_archive">>)
        /\ ~Raised(convert_tweet(known_tweets.v[i][2], known_tweets, OwnUser, users,
                                 extended_user_data, 0).exc) }

\* C11: convert_tweets skips a record whose rendering fails, a record
\* without an id included: it raises nothing, and the HTML of every archive
\* record that renders is in its output
C11_BulkConversionGoesOn ==
    pc \in {"all_converted", "aborted"} =>
        /\ raised = NoExc
        /\ \A i \in Renderable :
              \E j \in 1..Len(converted_tweets) :
                  converted_tweets[j] = convert_tweet(known_tweets.v[i][2], known_tweets, OwnUser,
                                                      users, extended_user_data, 0).html

----------------------------------------------------------------------------
(* algebraic properties of the merge engine *)

\* the same keys and the same value under every key, lists compared as sets
\* of elements, scalars as Python's == compares them
RECURSIVE SameValue(_, _)
SameValue(x, y) ==
    IF IsDict(x) /\ IsDict(y)
    THEN /\ DictKeys(x) = DictKeys(y)
         /\ \A key \in DictKeys(x) : SameValue(Get(x, key), Get(y, key))
    ELSE IF IsList(x) /\ IsList(y)
    THEN /\ \A i \in 1..Len(x.v) : \E j \in 1..Len(y.v) : SameValue(x.v[i], y.v[j])
         /\ \A j \in 1..Len(y.v) : \E i \in 1..Len(x.v) : SameValue(x.v[i], y.v[j])
    ELSE PyEq(x, y)

\* C12: for a and b without a genuinely conflicting scalar field,
\* merge_dicts(a, b) and merge_dicts(b, a) both return, with the same keys and
\* the same value under every key (lists as sets of elements)
C12_MergeCommutes ==
    (pc = "merged" /\ GenuineConflicts(arg_a, arg_b, << >>) = {}) =>
        LET back == merge_dicts(arg_b, arg_a, << >>)
        IN  /\ Raised(merged.exc) = Raised(back.exc)
            /\ ~Raised(merged.exc) => SameValue(merged.val, back.val)


\* C13: for a and b without a genuinely conflicting scalar field, where
\* merge_dicts(a, b) returns, merging b once more returns as well and leaves
\* the result as it was: no field changed, no list element added or changed
C13_MergeIdempotent ==
    (pc = "merged" /\ GenuineConflicts(arg_a, arg_b, << >>) = {} /\ ~Raised(merged.exc)) =>
        LET again == merge_dicts(merged.val, arg_b, << >>)
        IN  /\ ~Raised(again.exc)
            /\ again.val = merged.val

----------------------------------------------------------------------------
(* merge_lists as a union of lists *)

\* structural equality, an integer and a numeric string of the same number
\* counted as equal
RECURSIVE StructurallyEqual(_, _)
StructurallyEqual(x, y) ==
    IF IsDict(x) /\ IsDict(y)
    THEN /\ DictKeys(x) = DictKeys(y)
         /\ \A key \in DictKeys(x) : StructurallyEqual(Get(x, key), Get(y, key))
    ELSE IF IsList(x) /\ IsList(y)
    THEN /\ Len(x.v) = Len(y.v)
         /\ \A i \in 1..Len(x.v) : StructurallyEqual(x.v[i], y.v[i])
    ELSE IF IsDict(x) \/ IsDict(y) \/ IsList(x) \/ IsList(y) THEN FALSE
    ELSE PyEq(x, y) \/ NumericallyEqual(x, y)

\* two mappings with the same id_str
SameIdStr(x, y) ==
    /\ IsDict(x) /\ IsDict(y)
    /\ HasKey(x, <<"id_str">>) /\ HasKey(y, <<"id_str">>)
    /\ PyEq(Get(x, <<"id_str">>), Get(y, <<"id_str">>))

SameElement(x, y) == StructurallyEqual(x, y) \/ SameIdStr(x, y)

\* the lists of mentions given to merge_lists, and the list it left
MentionsOf(d) == Get(d, <<"user_mentions">>).v

\* the elements of b for which a holds the same element when called
KnownToA == { j \in 1..Len(MentionsOf(arg_b)) :
                \E i \in 1..Len(MentionsOf(arg_a)) :
                    SameElement(MentionsOf(arg_a)[i], MentionsOf(arg_b)[j]) }

\* C14: merge_lists(a, b, ignore_types=True), called by merge_dicts for the
\* lists under one key, returns; the elements a held stay at their places
\* (a mapping keeps its id_str and its keys); only elements of b that a did
\* not hold are appended, each of them is found in the appended part, and
\* an element of b whose id_str a holds is merged into such an element of a
C14_ListUnion ==
    (pc = "merged" /\ HasKey(arg_a, <<"user_mentions">>)) =>
        LET a == MentionsOf(arg_a)
            b == MentionsOf(arg_b)
            res == MentionsOf(merged.val)
            fresh == (1..Len(b)) \ KnownToA
        IN  /\ ~Raised(merged.exc)
            /\ Len(res) >= Len(a)
            /\ \A i \in 1..Len(a) :
                  IF IsDict(a[i])
                  THEN /\ IsDict(res[i])
                       /\ DictKeys(a[i]) \subseteq DictKeys(res[i])
                       /\ SameIdStr(a[i], res[i])
                  ELSE res[i] = a[i]
            /\ Len(res) - Len(a) <= Cardinality(fresh)
            /\ \A j \in fresh : \E k \in (Len(a) + 1)..Len(res) : SameElement(res[k], b[j])
            /\ \A k \in (Len(a) + 1)..Len(res) : \E j \in fresh : SameElement(res[k], b[j])
            /\ \A j \in KnownToA :
                  (\E i \in 1..Len(a) : SameIdStr(a[i], b[j])) =>
                      \E i \in 1..Len(a) :
                          /\ SameIdStr(a[i], b[j])
                          /\ DictKeys(b[j]) \subseteq DictKeys(res[i])

\* C15: merge_dicts(a, b) leaves b, and every mapping and list in b, with
\* the content it had, whether the call returns or raises
C15_MergeLeavesB ==
    pc = "merged" => merged.b = arg_b

----------------------------------------------------------------------------
(* the record store only grows *)

\* every field of old that holds a non-null value holds a non-null value in
\* new, through nested mappings
RECURSIVE NonNullKept(_, _)
NonNullKept(old, new) ==
    \A key \in DictKeys(old) :
        Get(old, key).t # "null" =>
            /\ HasKey(new, key)
            /\ Get(new, key).t # "null"
            /\ (IsDict(Get(old, key)) /\ IsDict(Get(new, key))) =>
                   NonNullKept(Get(old, key), Get(new, key))

\* C16: whatever add_known_tweet is called with (archive records, fetched
\* records, confirmed-absent results), every identifier of the store stays
\* in it and every field that held a non-null value still holds one
C16_StoreOnlyGrows ==
    [][\A id \in DictKeys(known_tweets) :
           /\ HasKey(known_tweets', id)
           /\ NonNullKept(Get(known_tweets, id), Get(known_tweets', id))]_known_tweets

----------------------------------------------------------------------------
(* properties of the reference collector *)

\* C17: what collect_tweet_ids_from_tweets returns for the loaded store
\* holds no id of a record that the store flags api_returned_null, neither
\* as a reference of another record nor as the record's own id
C17_CollectorSkipsFlagged ==
    pc = "collected" =>
        \A i \in 1..Len(tweet_ids_to_download) :
            ~ApiReturnedNull(known_tweets, tweet_ids_to_download[i])

\* C18: when collect_tweet_references needs the id of the record (a retweet
\* body, media without alt text) and id_str is None or absent, it raises
C18_MissingIdFailsLoudly ==
    (/\ pc = "references_collected"
     /\ WantsRetweetBody(tweet) \/ WantsAltText(tweet)
     /\ ~has_path(tweet, << <<"id_str">> >>)) => Raised(tweet_ids.exc)

----------------------------------------------------------------------------
(* properties of the persisted state *)

\* C19: in download_tweets, once get_tweets has returned and its results are
\* merged, the store file holds the whole store, the results of that pass
\* included: before the next pass starts and when download_tweets returns
C19_StoreSavedEachPass ==
    (pc \in {"loop", "session", "done"} /\ calls.n > 0) => saved_tweets = known_tweets

\* after the first pass, with ids still to fetch, the store file holds a
\* record that this pass fetched
C19_Witness ==
    /\ pc = "loop"
    /\ calls.n = 1
    /\ Len(tweet_ids_to_download) > 0
    /\ \E i \in 1..Len(tweets.v) :
          /\ tweets.v[i][2] # None
          /\ HasKey(saved_tweets, tweets.v[i][1])
          /\ HasKey(Get(saved_tweets, tweets.v[i][1]), <<"from_api">>)

\* C20: when a pass of download_larger_media follows another, the download
\* state map has been written to the state file
C20_StateFlushedEachPass ==
    (pc = "pass" /\ remaining_tries < first_remaining_tries) =>
        state_file = media_download_state

(***************************************************************************)
(* C22: settled urls are not downloaded again                              *)
(***************************************************************************)

\* the entry records success or an excluded permanent error
SettledEntry(entry) == entry.success \/ entry.error \in error_codes_to_exclude

\* C22: no download is attempted for a url whose entry in the download state
\* map, at the time of the attempt, records success or an excluded error;
\* this includes the second local path of a url the same pass has settled
C22_NoDownloadOfSettled ==
    \A i \in 1..Len(downloads) : ~SettledEntry(downloads[i][2])

\* the part that holds: the first download of a url in a pass finds its
\* entry unsettled, whether the file or the run wrote it
C22_FirstAttemptUnsettled ==
    \A i \in 1..Len(downloads) :
        (\A j \in 1..(i - 1) : downloads[j][1] # downloads[i][1]) =>
            ~SettledEntry(downloads[i][2])

(***************************************************************************)
(* C21: a user interrupt persists the progress made                        *)
(***************************************************************************)

\* C21: when a user interrupt has ended a pass of download_tweets, every
\* record fetched so far is in the saved record store
C21_InterruptPersistsProgress ==
    pc = "interrupted" =>
        \A i \in 1..Len(tweets.v) :
            tweets.v[i][2] # None =>
                /\ HasKey(saved_tweets, tweets.v[i][1])
                /\ HasKey(Get(saved_tweets, tweets.v[i][1]), <<"from_api">>)

\* the part that holds: when a user interrupt has ended a pass of
\* download_larger_media, the state file holds the download state map
C21_MediaStateSaved ==
    [][(pc = "pass" /\ pc' = "exited") => state_file' = media_download_state']_vars

(***************************************************************************)
(* C30: get_tweets terminates                                              *)
(***************************************************************************)

\* C30: whatever the service answers, get_tweets returns after finitely many
\* requests
C30_GetTweetsTerminates == <>(pc = "returned")

\* the part that holds: a request answered otherwise than with the
\* rate-limit status either ends get_tweets or shortens the remaining list
C30_OtherAnswersProgress ==
    [][(pc = "batch" /\ status' # "429" /\ request' # request) =>
          \/ pc' = "returned"
          \/ Len(remaining_tweet_ids') < Len(remaining_tweet_ids)]_vars

(***************************************************************************)
(* C23: a failed batch of the account lookup keeps what was fetched        *)
(***************************************************************************)

\* the ids of the accounts get_twitter_users has fetched
FetchedUserIds == {twitter_users.v[i][1] : i \in 1..Len(twitter_users.v)}

\* C23: when a batch of get_twitter_users has failed after earlier batches
\* succeeded, the accounts those fetched are in extended_user_data and in
\* users when lookup_users has returned
C23_PartialLookupKept ==
    pc = "failed" =>
        \A id \in FetchedUserIds : HasKey(extended_user_data, id) /\ HasKey(users, id)

\* the part that holds: after batches answered with 200 or 404 only, every
\* account fetched is stored
C23_CompletedLookupStored ==
    pc = "stored" =>
        \A id \in FetchedUserIds : HasKey(extended_user_data, id) /\ HasKey(users, id)

(***************************************************************************)
(* C24: the batches are consecutive slices of the input                    *)
(***************************************************************************)

\* the ids of the requests get_twitter_users has sent, one after the other
RECURSIVE RequestedUserIds(_)
RequestedUserIds(n) ==
    IF n = 0 THEN << >> ELSE RequestedUserIds(n - 1) \o user_requests[n].ids

\* C24: every request of get_tweets and of get_twitter_users carries between
\* 1 and max_batch ids; the ids of the batches answered so far, in the order
\* sent, followed by the ids that remain, are the input list: the batches are
\* consecutive slices without overlap, and a batch answered with the
\* rate-limit status or a failure is the head of what remains
C24_BatchesAreSlices ==
    /\ pc \in {"batch", "returned"} =>
          /\ FetchedIds \o remaining_tweet_ids = calls.given
          /\ request.n > 0 =>
                /\ Len(request.ids) \in 1..max_batch
                /\ IF status = "200"
                   THEN request.ids = SubSeq(FetchedIds, Len(FetchedIds) - Len(request.ids) + 1,
                                             Len(FetchedIds))
                   ELSE request.ids = SubSeq(remaining_tweet_ids, 1, Len(request.ids))
    /\ pc \in {"users", "failed", "stored"} =>
          /\ RequestedUserIds(Len(user_requests)) \o user_ids = unknown_user_ids
          /\ \A n \in 1..Len(user_requests) : Len(user_requests[n].ids) \in 1..max_batch

\* get_twitter_users has asked for four accounts in two batches, both answered
\* with status 200, and lookup_users has stored the answers
C24_Witness ==
    /\ pc = "stored"
    /\ Len(unknown_user_ids) = 4
    /\ Len(user_requests) = 2
    /\ \A n \in 1..2 : user_requests[n].status = "200"
    /\ Len(twitter_users.v) = 4

(***************************************************************************)
(* C25: the pages of a conversation                                        *)
(***************************************************************************)

\* the files written for a group, in the order written
PagesOf(group) ==
    SelectSeq(files, LAMBDA f : f.name = OtherUserShortName(group.key, users))

RECURSIVE Concatenated(_, _)
Concatenated(pages, n) ==
    IF n = 0 THEN << >> ELSE Concatenated(pages, n - 1) \o pages[n].messages

\* the messages of direct-messages.js
ArchiveMessages ==
    UNION { {dms_json[c].messages[k] : k \in 1..Len(dms_json[c].messages)} :
              c \in 1..Len(dms_json) }

\* C25: a group of n messages is written to one file without index when
\* n <= page_size and to ceil(n / page_size) files otherwise, numbered 1, 2,
\* ... without gaps, each with at most page_size messages and all but the
\* last with exactly page_size; the pages in index order are the messages in
\* ascending order of timestamp, and every message of the archive is in
\* exactly one place of one group
C25_Pagination ==
    pc = "written" =>
        /\ \A g \in 1..Len(conversations_messages) :
              LET group == conversations_messages[g]
                  n == Len(group.messages)
                  pages == PagesOf(group)
              IN  /\ IF n <= page_size
                     THEN Len(pages) = 1 /\ pages[1].index = 0
                     ELSE /\ Len(pages) * page_size >= n
                          /\ (Len(pages) - 1) * page_size < n
                          /\ \A k \in 1..Len(pages) :
                                /\ pages[k].index = k
                                /\ Len(pages[k].messages) <= page_size
                                /\ k < Len(pages) => Len(pages[k].messages) = page_size
                  /\ Concatenated(pages, Len(pages)) = group.messages
                  /\ \A i, j \in 1..n :
                        i < j => group.messages[i].timestamp <= group.messages[j].timestamp
        /\ \A m \in ArchiveMessages :
              Cardinality({ <<g, i>> \in (1..Len(conversations_messages)) \X (1..MaxMessages + 1) :
                              /\ i <= Len(conversations_messages[g].messages)
                              /\ conversations_messages[g].messages[i] = m }) = 1
        /\ Len(Concatenated(files, Len(files))) = Cardinality(ArchiveMessages)

\* a conversation of page_size + 1 messages that were not in order of time
\* is written to two files, of page_size messages and of one
C25_Witness ==
    /\ pc = "written"
    /\ Len(dms_json) = 1
    /\ Len(dms_json[1].messages) = page_size + 1
    /\ dms_json[1].messages[1].timestamp > dms_json[1].messages[2].timestamp
    /\ Len(files) = 2
    /\ Len(files[1].messages) = page_size
    /\ Len(files[2].messages) = 1

(***************************************************************************)
(* C29: messages are grouped by conversation                               *)
(***************************************************************************)

\* C29: all messages of a group come from conversations between the same
\* two accounts
C29_GroupedByConversation ==
    pc = "written" =>
        \A g \in 1..Len(conversations_messages) :
            \A i, j \in 1..Len(conversations_messages[g].messages) :
                LET m1 == conversations_messages[g].messages[i]
                    m2 == conversations_messages[g].messages[j]
                IN  dms_json[m1.markdown[1]].conversationId =
                        dms_json[m2.markdown[1]].conversationId

\* the part that holds: when the account map holds the owner under the
\* username, or no conversation id starts with the owner's id, every group
\* holds one conversation
C29_GroupedWhenOwnerKnown ==
    (pc = "written" /\ (\/ (HasKey(users, OwnerId) /\ Get(users, OwnerId).handle = username)
                        \/ \A c \in 1..Len(dms_json) : dms_json[c].conversationId[1] # OwnerId)) =>
        \A g \in 1..Len(conversations_messages) :
            \A i, j \in 1..Len(conversations_messages[g].messages) :
                dms_json[conversations_messages[g].messages[i].markdown[1]].conversationId =
                    dms_json[conversations_messages[g].messages[j].markdown[1]].conversationId

(***************************************************************************)
(* C27, C28: the best-quality url of a video                               *)
(***************************************************************************)

\* the places of the variants that declare a bitrate
Declaring == {k \in 1..Len(media_item.variants) : HasKey(media_item.variants[k], <<"bitrate">>)}

DeclaredBitrate(k) == IntOf(Get(media_item.variants[k], <<"bitrate">>))

\* C27: when a variant declares a bitrate, the url recorded for the item is
\* that of the first variant in list order whose bitrate no declaring variant
\* exceeds, a bitrate of 0 included
C27_HighestBitrateFirst ==
    (pc = "collected" /\ Declaring # {}) =>
        LET k == CHOOSE c \in Declaring :
                    /\ \A d \in Declaring : DeclaredBitrate(d) <= DeclaredBitrate(c)
                    /\ \A d \in Declaring : d < c => DeclaredBitrate(d) < DeclaredBitrate(c)
        IN  /\ Len(collected_media.tweet_media) = 1
            /\ collected_media.tweet_media[1].best_quality_url = Get(media_item.variants[k], <<"url">>)
            /\ Len(collected_media.media_sources) = 1
            /\ collected_media.media_sources[1][2] = Get(media_item.variants[k], <<"url">>)

\* three variants: the first without a bitrate, the next two with the same
\* highest bitrate, once as a number and once as a string; the url of the
\* second variant is recorded
C27_Witness ==
    /\ pc = "collected"
    /\ Len(media_item.variants) = 3
    /\ Declaring = {2, 3}
    /\ DeclaredBitrate(2) = DeclaredBitrate(3)
    /\ Get(media_item.variants[2], <<"bitrate">>) # Get(media_item.variants[3], <<"bitrate">>)
    /\ collected_media.tweet_media[1].best_quality_url = Get(media_item.variants[2], <<"url">>)

\* C28: when no variant declares a bitrate, no url is recorded in the download
\* worklist, and the item still has a descriptor that points to the file of
\* the archive when there is one
C28_LocalOnlyFallback ==
    (pc = "collected" /\ Declaring = {}) =>
        /\ collected_media.media_sources = << >>
        /\ Len(media_item.archive_media_paths) > 0 =>
              /\ Len(collected_media.tweet_media) = 1
              /\ collected_media.tweet_media[1].local_filename =
                     PyStr(<<"media/">> \o media_item.archive_media_paths[1])

\* the part that holds: without a declared bitrate nothing is recorded for
\* the download
C28_NoUrlRecorded ==
    (pc = "collected" /\ Declaring = {}) => collected_media.media_sources = << >>

(***************************************************************************)
(* C26: rendering leaves the record store unchanged                        *)
(***************************************************************************)

============================================================================
